---- MODULE Spec2Model ----
(***************************************************************************)
(* Block-state catalog build (pumpkin-data/build/block.rs), the generated  *)
(* property codecs, the redstone wire / power queries and the doors of the *)
(* Pumpkin server (pumpkin/src/block), and the stacks of an inventory      *)
(* (pumpkin-inventory).                                                    *)
(***************************************************************************)
EXTENDS Integers, Sequences, FiniteSets, TLC

VARIABLES
    blocks,     \* blocks_assets.blocks: the input catalog read by build()
    built,      \* "no" before build(), "panic" when it aborted, "yes" after
    gen,        \* what build() generated (properties, shared_props, ...)
    ret,        \* the result of the last query or handler call
    world,      \* the block state at each position of the loaded world
    registry,   \* server.block_registry: the blocks with a registered behaviour
    wire_gives_power,   \* RedstoneWireBlock.wire_gives_power
    drv,        \* per driver: where its get_strong_power or toggle_door call stands
    pending,    \* the calls of a neighbour-update cascade still to run, next first
    stacks      \* the item stacks of an inventory, by slot

vars == <<blocks, built, gen, ret, world, registry, wire_gives_power, drv, pending, stacks>>

----------------------------------------------------------------------------
(* Bounds of the model.                                                    *)

MaxBlocks == 2

NumDrivers == 2

U16 == 65536

----------------------------------------------------------------------------
(* Small helpers on sequences.                                             *)

Contains(seq, x) == \E i \in 1..Len(seq) : seq[i] = x

Range(seq) == {seq[i] : i \in 1..Len(seq)}

\* position (from 1) of the first element equal to x, 0 when there is none
Position(seq, x) ==
    IF Contains(seq, x)
    THEN CHOOSE i \in 1..Len(seq) : seq[i] = x /\ \A j \in 1..(i - 1) : seq[j] # x
    ELSE 0

Reverse(seq) == [i \in 1..Len(seq) |-> seq[Len(seq) + 1 - i]]

RECURSIVE Flatten(_)
Flatten(ss) == IF ss = <<>> THEN <<>> ELSE Head(ss) \o Flatten(Tail(ss))

RECURSIVE Product(_)
Product(ns) == IF ns = <<>> THEN 1 ELSE Head(ns) * Product(Tail(ns))

RECURSIVE SeqsUpTo(_, _)
SeqsUpTo(S, n) ==
    IF n = 0 THEN {<<>>}
    ELSE LET shorter == SeqsUpTo(S, n - 1)
         IN shorter \cup {Append(s, x) : s \in {t \in shorter : Len(t) = n - 1}, x \in S}

----------------------------------------------------------------------------
(* The shared property kinds.                                              *)

BOOL_REMAP == [variants |-> <<"true", "false">>, name |-> "Boolean"]
AXIS_REMAP == [variants |-> <<"x", "y", "z">>, name |-> "Axis"]
DIRECTION_REMAP ==
    [variants |-> <<"north", "east", "south", "west", "up", "down">>, name |-> "Direction"]
REDSTONE_CONNECTION_REMAP ==
    [variants |-> <<"up", "side", "none">>, name |-> "RedstoneConnection"]
CARDINAL_DIRECTION_REMAP ==
    [variants |-> <<"north", "east", "south", "west">>, name |-> "CardinalDirection"]
STAIR_HALF_REMAP == [variants |-> <<"bottom", "top">>, name |-> "StairHalf"]
RAIL_SHAPE_REMAP ==
    [variants |-> <<"north_south", "east_west", "ascending_east", "ascending_west",
                    "ascending_north", "ascending_south">>,
     name |-> "RailShape"]
CHEST_TYPE_REMAP == [variants |-> <<"single", "left", "right">>, name |-> "ChestType"]
STRUCTURE_BLOCK_MODE_REMAP ==
    [variants |-> <<"save", "load", "corner", "data">>, name |-> "StructureBlockMode"]

PROPERTIES_REMAPS ==
    <<BOOL_REMAP, AXIS_REMAP, DIRECTION_REMAP, REDSTONE_CONNECTION_REMAP,
      CARDINAL_DIRECTION_REMAP, STAIR_HALF_REMAP, RAIL_SHAPE_REMAP, CHEST_TYPE_REMAP,
      STRUCTURE_BLOCK_MODE_REMAP>>

\* heck's to_upper_camel_case on the property names and on the (prefixed)
\* values the catalogs below use
to_upper_camel_case(s) ==
    CASE s = "powered" -> "Powered"
      [] s = "lit" -> "Lit"
      [] s = "level" -> "Level"
      [] s = "axis" -> "Axis"
      [] s = "east" -> "East"
      [] s = "true" -> "True"
      [] s = "false" -> "False"
      [] s = "x" -> "X"
      [] s = "y" -> "Y"
      [] s = "z" -> "Z"
      [] s = "up" -> "Up"
      [] s = "side" -> "Side"
      [] s = "none" -> "None"
      [] OTHER -> s

\* the first remap whose variants have the same length as props and contain
\* every element of props names the enum; else the camel-cased fallback
get_enum_name(props, fallback) ==
    LET hits == {i \in 1..Len(PROPERTIES_REMAPS) :
                    /\ Len(props) = Len(PROPERTIES_REMAPS[i].variants)
                    /\ \A j \in 1..Len(props) :
                          Contains(PROPERTIES_REMAPS[i].variants, props[j])}
    IN IF hits # {}
       THEN PROPERTIES_REMAPS[CHOOSE i \in hits : \A k \in hits : i <= k].name
       ELSE to_upper_camel_case(fallback)

IsRemapName(enum_name) ==
    \E i \in 1..Len(PROPERTIES_REMAPS) : PROPERTIES_REMAPS[i].name = enum_name

----------------------------------------------------------------------------
(* check_for_prop_duplicates                                               *)

AllProps(bs) == Flatten([i \in 1..Len(bs) |-> bs[i].properties])

\* a property is kept unless some kept one has all its values among the new
\* property's values
RECURSIVE unique_props_loop(_, _)
unique_props_loop(ps, acc) ==
    IF ps = <<>> THEN acc
    ELSE LET prop == Head(ps)
             seen == \E i \in 1..Len(acc) :
                        \A j \in 1..Len(acc[i].values) :
                            Contains(prop.values, acc[i].values[j])
         IN unique_props_loop(Tail(ps), IF seen THEN acc ELSE Append(acc, prop))

unique_props(bs) == unique_props_loop(AllProps(bs), <<>>)

RECURSIVE unique_props_names_loop(_, _)
unique_props_names_loop(ups, acc) ==
    IF ups = <<>> THEN acc
    ELSE LET enum_name == get_enum_name(Head(ups).values, Head(ups).name)
         IN unique_props_names_loop(Tail(ups),
                IF IsRemapName(enum_name) THEN acc ELSE Append(acc, enum_name))

unique_props_names(bs) == unique_props_names_loop(unique_props(bs), <<>>)

\* TRUE when check_for_prop_duplicates panics
check_for_prop_duplicates(bs) ==
    Len(unique_props_names(bs)) # Cardinality(Range(unique_props_names(bs)))

----------------------------------------------------------------------------
(* build(): the unique property types, the property sets shared by blocks, *)
(* the deduplicated attribute records and the per-block state references.  *)

\* "Add unique property types": the first property seen under an enum name
\* gives the generated enum its values
RECURSIVE properties_loop(_, _)
properties_loop(ps, acc) ==
    IF ps = <<>> THEN acc
    ELSE LET enum_name == get_enum_name(Head(ps).values, Head(ps).name)
         IN properties_loop(Tail(ps),
                IF \E i \in 1..Len(acc) : acc[i].name = enum_name
                THEN acc
                ELSE Append(acc, [name |-> enum_name, values |-> Head(ps).values]))

build_properties(bs) == properties_loop(AllProps(bs), <<>>)

\* the (field name, enum name) entries of one block
block_entries(block) ==
    [i \in 1..Len(block.properties) |->
        <<block.properties[i].name,
          get_enum_name(block.properties[i].values, block.properties[i].name)>>]

\* shared_props: blocks with equal entries share one generated property set
RECURSIVE shared_props_loop(_, _)
shared_props_loop(bs, acc) ==
    IF bs = <<>> THEN acc
    ELSE LET block == Head(bs)
             entries == block_entries(block)
             at == {i \in 1..Len(acc) : acc[i].entries = entries}
         IN shared_props_loop(Tail(bs),
                IF block.properties = <<>> THEN acc
                ELSE IF at # {}
                THEN LET k == CHOOSE i \in at : \A j \in at : i <= j
                     IN [acc EXCEPT ![k].blocks = Append(@, block.name)]
                ELSE Append(acc, [entries |-> entries, blocks |-> <<block.name>>]))

build_shared_props(bs) == shared_props_loop(bs, <<>>)

\* the fields of a state that the build compares ("all fields except id")
same_attributes(s, t) ==
    /\ s.air = t.air
    /\ s.luminance = t.luminance
    /\ s.burnable = t.burnable
    /\ s.tool_required = t.tool_required
    /\ s.hardness = t.hardness
    /\ s.sided_transparency = t.sided_transparency
    /\ s.replaceable = t.replaceable
    /\ s.collision_shapes = t.collision_shapes

AllStates(bs) == Flatten([i \in 1..Len(bs) |-> bs[i].states])

RECURSIVE unique_states_loop(_, _)
unique_states_loop(ss, acc) ==
    IF ss = <<>> THEN acc
    ELSE LET already_exists == \E i \in 1..Len(acc) : same_attributes(acc[i], Head(ss))
         IN unique_states_loop(Tail(ss), IF already_exists THEN acc ELSE Append(acc, Head(ss)))

build_unique_states(bs) == unique_states_loop(AllStates(bs), <<>>)

\* position (from 0) of the first unique state with the same compared fields
state_idx(us, state) ==
    (CHOOSE i \in 1..Len(us) :
        /\ same_attributes(us[i], state)
        /\ \A j \in 1..(i - 1) : ~same_attributes(us[j], state)) - 1

\* BLOCK_STATES: a unique state written out as a PartialBlockState (no id)
PartialBlockState(s) ==
    [air |-> s.air, luminance |-> s.luminance, burnable |-> s.burnable,
     tool_required |-> s.tool_required, hardness |-> s.hardness,
     sided_transparency |-> s.sided_transparency, replaceable |-> s.replaceable,
     collision_shapes |-> s.collision_shapes, opacity |-> s.opacity,
     block_entity_type |-> s.block_entity_type]

OptimizedBlock(block, us) ==
    [id |-> block.id, name |-> block.name, item_id |-> block.item_id,
     default_state_id |-> block.default_state_id,
     states |-> [i \in 1..Len(block.states) |->
                    [id |-> block.states[i].id,
                     state_idx |-> state_idx(us, block.states[i])]]]

\* everything build() generates from a catalog that passed the duplicate check
build(bs) ==
    LET us == build_unique_states(bs)
    IN [properties |-> build_properties(bs),
        shared_props |-> build_shared_props(bs),
        BLOCK_STATES |-> [i \in 1..Len(us) |-> PartialBlockState(us[i])],
        optimized_blocks |-> [i \in 1..Len(bs) |-> OptimizedBlock(bs[i], us)]]

----------------------------------------------------------------------------
(* The generated code: EnumVariants of a property enum.                    *)

PANIC == "panic"

PropertyStruct(properties, enum_name) ==
    properties[CHOOSE i \in 1..Len(properties) : properties[i].name = enum_name]

variant_count(p) == Len(p.values) % U16

\* match self { variant_k => k }
enum_to_index(p, v) == Position(p.values, v) - 1

\* from_index taking the index modulo the number of variants
enum_from_index_wrapping(p, index) == p.values[(index % Len(p.values)) + 1]

\* match index { k => variant_k, _ => panic }
enum_from_index(p, index) ==
    IF index \in 0..(Len(p.values) - 1) THEN p.values[index + 1] ELSE PANIC

\* the identifier of the variant generated for a value
ident(p, value) ==
    to_upper_camel_case((IF Contains(p.values, "1") THEN "L" ELSE "") \o value)

\* the variant an identifier of the enum denotes; a variant is written here
\* as the value it was generated for
variant_of(p, id) ==
    p.values[CHOOSE i \in 1..Len(p.values) :
                /\ ident(p, p.values[i]) = id
                /\ \A j \in 1..(i - 1) : ident(p, p.values[j]) # id]

\* match self { Self::ident_k => value_k }
enum_to_value(p, v) ==
    p.values[CHOOSE i \in 1..Len(p.values) :
                /\ ident(p, p.values[i]) = ident(p, v)
                /\ \A j \in 1..(i - 1) : ident(p, p.values[j]) # ident(p, v)]

\* match value { value_k => Self::ident_k, _ => panic }
enum_from_value(p, value) ==
    IF Contains(p.values, value) THEN variant_of(p, ident(p, value)) ELSE PANIC

----------------------------------------------------------------------------
(* The generated code: BlockProperties of a property set.  A property set  *)
(* is the list of the enums of its fields, in the generated order, which   *)
(* is the reverse of the declared one.  An assignment gives each field     *)
(* a variant.                                                              *)

\* the field types in the declared order, entries not reversed
field_types_declared(properties, entries) ==
    [i \in 1..Len(entries) |-> PropertyStruct(properties, entries[i][2])]

field_types(properties, entries) ==
    LET rev == Reverse(entries)
    IN [i \in 1..Len(rev) |-> PropertyStruct(properties, rev[i][2])]

field_names(entries) ==
    LET rev == Reverse(entries) IN [i \in 1..Len(rev) |-> rev[i][1]]

Assignments(types) ==
    {a \in [1..Len(types) -> UNION {Range(types[i].values) : i \in 1..Len(types)}] :
        \A i \in 1..Len(types) : Contains(types[i].values, a[i])}

\* the product of the variant counts of the fields
Cardinalities(types) == Product([i \in 1..Len(types) |-> Len(types[i].values)])

RECURSIVE to_index_loop(_, _, _, _, _)
to_index_loop(types, a, i, index, multiplier) ==
    IF i > Len(types) THEN index
    ELSE to_index_loop(types, a, i + 1,
            (index + ((enum_to_index(types[i], a[i]) * multiplier) % U16)) % U16,
            (multiplier * variant_count(types[i])) % U16)

to_index(types, a) == to_index_loop(types, a, 1, 0, 1)

\* from_index without "index /= variant_count"
RECURSIVE from_index_loop_no_div(_, _, _, _)
from_index_loop_no_div(types, i, index, acc) ==
    IF i > Len(types) THEN acc
    ELSE from_index_loop_no_div(types, i + 1, index,
            Append(acc, enum_from_index(types[i], index % variant_count(types[i]))))

RECURSIVE from_index_loop(_, _, _, _)
from_index_loop(types, i, index, acc) ==
    IF i > Len(types) THEN acc
    ELSE LET value == index % variant_count(types[i])
         IN from_index_loop(types, i + 1, index \div variant_count(types[i]),
                Append(acc, enum_from_index(types[i], value)))

from_index(types, index) == from_index_loop(types, 1, index, <<>>)

to_state_id(types, a, block) == (block.states[1].id + to_index(types, a)) % U16

None == <<>>
Some(x) == <<x>>

\* from_state_id leaving out the last state of the block
from_state_id_below_last(types, state_id, block) ==
    IF state_id >= block.states[1].id /\ state_id < block.states[Len(block.states)].id
    THEN Some(from_index(types, state_id - block.states[1].id))
    ELSE None

from_state_id(types, state_id, block) ==
    IF state_id >= block.states[1].id /\ state_id <= block.states[Len(block.states)].id
    THEN Some(from_index(types, state_id - block.states[1].id))
    ELSE None

\* BlockStateRef::get_state
get_state(BLOCK_STATES, ref) ==
    LET partial_state == BLOCK_STATES[ref.state_idx + 1]
    IN [id |-> ref.id, air |-> partial_state.air, luminance |-> partial_state.luminance,
        burnable |-> partial_state.burnable, tool_required |-> partial_state.tool_required,
        hardness |-> partial_state.hardness,
        sided_transparency |-> partial_state.sided_transparency,
        replaceable |-> partial_state.replaceable,
        collision_shapes |-> partial_state.collision_shapes,
        opacity |-> partial_state.opacity,
        block_entity_type |-> partial_state.block_entity_type]

----------------------------------------------------------------------------
(* The catalogs the build is run on.  A catalog is a list of blocks; the   *)
(* state ids are contiguous over the catalog and a block owns as many      *)
(* states as its own properties have combinations.                         *)

BlockProperty(name, values) == [name |-> name, values |-> values]

\* the property lists a block may declare
PropertyShapes ==
    { <<>>,
      <<BlockProperty("powered", <<"true", "false">>)>>,
      <<BlockProperty("lit", <<"false", "true">>)>>,
      <<BlockProperty("level", <<"0", "1">>)>>,
      <<BlockProperty("level", <<"0", "1", "2">>)>>,
      <<BlockProperty("axis", <<"x", "z">>)>>,
      <<BlockProperty("axis", <<"x", "y", "z">>), BlockProperty("powered", <<"true", "false">>)>>,
      <<BlockProperty("east", <<"up", "side", "none">>), BlockProperty("level", <<"0", "1", "2">>)>> }

\* the attribute records a state may declare (the id is added per state)
BaseAttributes ==
    [air |-> FALSE, luminance |-> 0, burnable |-> FALSE, tool_required |-> FALSE,
     hardness |-> 2, sided_transparency |-> FALSE, replaceable |-> FALSE,
     collision_shapes |-> <<0>>, opacity |-> Some(15), block_entity_type |-> None]

AttributePool ==
    { BaseAttributes,
      [BaseAttributes EXCEPT !.luminance = 15],
      [BaseAttributes EXCEPT !.opacity = Some(0)],
      [BaseAttributes EXCEPT !.block_entity_type = Some(0)] }

StateCount(properties) == Product([i \in 1..Len(properties) |-> Len(properties[i].values)])

WithId(attrs, id) ==
    [id |-> id, air |-> attrs.air, luminance |-> attrs.luminance, burnable |-> attrs.burnable,
     tool_required |-> attrs.tool_required, hardness |-> attrs.hardness,
     sided_transparency |-> attrs.sided_transparency, replaceable |-> attrs.replaceable,
     collision_shapes |-> attrs.collision_shapes, opacity |-> attrs.opacity,
     block_entity_type |-> attrs.block_entity_type]

\* a block template: the declared properties and the attributes of each state
Templates(shapes, pool) ==
    UNION {{[properties |-> sh, attrs |-> at] : at \in [1..StateCount(sh) -> pool]} :
            sh \in shapes}

RECURSIVE FirstStateId(_, _)
FirstStateId(ts, i) == IF i = 1 THEN 0 ELSE FirstStateId(ts, i - 1) + Len(ts[i - 1].attrs)

Catalog(ts) ==
    [i \in 1..Len(ts) |->
        [id |-> i - 1, name |-> i, item_id |-> i - 1,
         properties |-> ts[i].properties,
         default_state_id |-> FirstStateId(ts, i),
         states |-> [k \in 1..Len(ts[i].attrs) |->
                        WithId(ts[i].attrs[k], FirstStateId(ts, i) + k - 1)]]]

Catalogs(shapes, pool) ==
    {Catalog(ts) : ts \in SeqsUpTo(Templates(shapes, pool), MaxBlocks) \ {<<>>}}

\* catalogs varying the declared properties, every state with the same attributes
ShapeCatalogs == Catalogs(PropertyShapes, {BaseAttributes})

\* catalogs varying the attributes of the states
AttributeCatalogs ==
    Catalogs({<<>>, <<BlockProperty("powered", <<"true", "false">>)>>}, AttributePool)

MaxStateId(bs) == bs[Len(bs)].states[Len(bs[Len(bs)].states)].id

----------------------------------------------------------------------------
(* The build and the queries on what it generated.                         *)

NoRet == [op |-> "none"]

RegInit(catalogs) ==
    /\ blocks \in catalogs
    /\ built = "no"
    /\ gen = <<>>
    /\ ret = NoRet

\* build(): aborts in check_for_prop_duplicates or generates the catalog
Build ==
    /\ built = "no"
    /\ IF check_for_prop_duplicates(blocks)
       THEN built' = "panic" /\ gen' = <<>>
       ELSE built' = "yes" /\ gen' = build(blocks)
    /\ UNCHANGED <<stacks, pending, registry, blocks, ret, world, wire_gives_power, drv>>

\* the generated property set of a block: the entries of its shared_props group
EntriesOf(g, name) ==
    g.shared_props[CHOOSE i \in 1..Len(g.shared_props) :
                        Contains(g.shared_props[i].blocks, name)].entries

HasProps(g, name) ==
    \E i \in 1..Len(g.shared_props) : Contains(g.shared_props[i].blocks, name)

TypesOf(g, name) == field_types(g.properties, EntriesOf(g, name))

PropBlocks == {i \in 1..Len(blocks) : built = "yes" /\ HasProps(gen, gen.optimized_blocks[i].name)}

\* props.to_index() and from_index of the result
ToIndex ==
    /\ built = "yes"
    /\ \E b \in PropBlocks :
         LET types == TypesOf(gen, gen.optimized_blocks[b].name)
         IN \E a \in Assignments(types) :
              ret' = [op |-> "to_index", types |-> types, a |-> a,
                      index |-> to_index(types, a),
                      back |-> from_index(types, to_index(types, a))]
    /\ UNCHANGED <<stacks, pending, registry, blocks, built, gen, world, wire_gives_power, drv>>

\* Props::from_index(index) for an index below the number of assignments
FromIndex ==
    /\ built = "yes"
    /\ \E b \in PropBlocks :
         LET types == TypesOf(gen, gen.optimized_blocks[b].name)
         IN \E index \in 0..(Cardinalities(types) - 1) :
              ret' = [op |-> "from_index", types |-> types, index |-> index,
                      a |-> from_index(types, index),
                      back |-> to_index(types, from_index(types, index))]
    /\ UNCHANGED <<stacks, pending, registry, blocks, built, gen, world, wire_gives_power, drv>>

\* props.to_state_id(block) and from_state_id of the result
ToStateId ==
    /\ built = "yes"
    /\ \E b \in PropBlocks :
         LET block == gen.optimized_blocks[b]
             types == TypesOf(gen, block.name)
         IN \E a \in Assignments(types) :
              ret' = [op |-> "to_state_id", block |-> b, a |-> a,
                      state_id |-> to_state_id(types, a, block),
                      back |-> from_state_id(types, to_state_id(types, a, block), block)]
    /\ UNCHANGED <<stacks, pending, registry, blocks, built, gen, world, wire_gives_power, drv>>

\* Props::from_state_id(state_id, block) and to_state_id of what it decodes
FromStateId ==
    /\ built = "yes"
    /\ \E b \in PropBlocks :
         LET block == gen.optimized_blocks[b]
             types == TypesOf(gen, block.name)
         IN \E state_id \in 0..(MaxStateId(blocks) + 1) :
              LET r == from_state_id(types, state_id, block)
              IN ret' = [op |-> "from_state_id", block |-> b, state_id |-> state_id,
                         a |-> r,
                         back |-> IF r = None THEN None
                                  ELSE Some(to_state_id(types, r[1], block))]
    /\ UNCHANGED <<stacks, pending, registry, blocks, built, gen, world, wire_gives_power, drv>>

\* state.get_state() for a state reference of a generated block
GetState ==
    /\ built = "yes"
    /\ \E b \in 1..Len(gen.optimized_blocks) :
         \E k \in 1..Len(gen.optimized_blocks[b].states) :
            ret' = [op |-> "get_state", block |-> b, k |-> k,
                    state |-> get_state(gen.BLOCK_STATES, gen.optimized_blocks[b].states[k])]
    /\ UNCHANGED <<stacks, pending, registry, blocks, built, gen, world, wire_gives_power, drv>>

RegNext == Build \/ ToIndex \/ FromIndex \/ ToStateId \/ FromStateId \/ GetState

----------------------------------------------------------------------------
(* The generated code: default and from_props of a property set, and the   *)
(* lookups of Block.                                                       *)

unwrap(option) == IF option = None THEN PANIC ELSE option[1]

\* BlockProperties::default
default(types, block) == unwrap(from_state_id(types, block.default_state_id, block))

\* the loop of from_props over the (key, value) pairs
RECURSIVE from_props_loop(_, _, _, _)
from_props_loop(types, names, props, block_props) ==
    IF block_props = PANIC \/ props = <<>> THEN block_props
    ELSE LET key == Head(props)[1]
             k == Position(names, key)
             value == IF k = 0 THEN PANIC ELSE enum_from_value(types[k], Head(props)[2])
         IN from_props_loop(types, names, Tail(props),
                IF value = PANIC THEN PANIC ELSE [block_props EXCEPT ![k] = value])

from_props(types, names, props, block) ==
    from_props_loop(types, names, props, default(types, block))

\* the first block of the generated list that test holds of, as an Option
FirstBlock(g, test(_)) ==
    LET hits == {i \in 1..Len(g.optimized_blocks) : test(g.optimized_blocks[i])}
    IN IF hits = {} THEN None
       ELSE Some(g.optimized_blocks[CHOOSE i \in hits : \A j \in hits : i <= j])

Block_from_registry_key(g, name) == FirstBlock(g, LAMBDA block : block.name = name)

Block_from_id(g, id) == FirstBlock(g, LAMBDA block : block.id = id)

state_start(block) ==
    CHOOSE m \in Range([k \in 1..Len(block.states) |-> block.states[k].id]) :
        \A k \in 1..Len(block.states) : m <= block.states[k].id

state_end(block) ==
    CHOOSE m \in Range([k \in 1..Len(block.states) |-> block.states[k].id]) :
        \A k \in 1..Len(block.states) : m >= block.states[k].id

\* Block::from_state_id answering the last block of the list with that range
Block_from_state_id_by_start(g, id) ==
    FirstBlock(g, LAMBDA block : id >= state_start(block))

\* the arms state_start..=state_end, in the order of the blocks
Block_from_state_id(g, id) ==
    FirstBlock(g, LAMBDA block : id >= state_start(block) /\ id <= state_end(block))

\* from_item_id with an arm for every block, the last of an item id first
Block_from_item_id_last(g, id) ==
    LET hits == {i \in 1..Len(g.optimized_blocks) : g.optimized_blocks[i].item_id = id}
    IN IF hits = {} THEN None
       ELSE Some(g.optimized_blocks[CHOOSE i \in hits : \A j \in hits : i >= j])

\* an arm for a block unless an earlier block has its item id
Block_from_item_id(g, id) == FirstBlock(g, LAMBDA block : block.item_id = id)

\* Block::properties answering None where from_state_id does
Block_properties_or_none(g, block, state_id) ==
    IF HasProps(g, block.name)
    THEN LET props == from_state_id(TypesOf(g, block.name), state_id, block)
         IN IF props = None THEN None ELSE Some(props[1])
    ELSE None

\* Block::properties: Some(from_state_id(..).unwrap()) for a block with a
\* property set, None for the others
Block_properties(g, block, state_id) ==
    IF HasProps(g, block.name)
    THEN LET props == unwrap(from_state_id(TypesOf(g, block.name), state_id, block))
         IN IF props = PANIC THEN PANIC ELSE Some(props)
    ELSE None

\* Block::from_properties: Some(from_props(props, block)) for a block with a
\* property set, None for the others
Block_from_properties(g, block, props) ==
    IF HasProps(g, block.name)
    THEN LET block_props == from_props(TypesOf(g, block.name),
                                       field_names(EntriesOf(g, block.name)), props, block)
         IN IF block_props = PANIC THEN PANIC ELSE Some(block_props)
    ELSE None

\* the catalogs of the lookups: the default state is the first or the last
\* of the block, and blocks may have the same item
LookupShapes ==
    { <<>>,
      <<BlockProperty("powered", <<"true", "false">>)>>,
      <<BlockProperty("level", <<"0", "1">>)>>,
      <<BlockProperty("level", <<"0", "1", "2">>)>>,
      <<BlockProperty("axis", <<"x", "y", "z">>), BlockProperty("powered", <<"true", "false">>)>> }

LookupTemplates ==
    {[properties |-> sh, attrs |-> [k \in 1..StateCount(sh) |-> BaseAttributes],
      default |-> v[1], item_id |-> v[2]] :
        sh \in LookupShapes, v \in {<<"first", 0>>, <<"last", 0>>, <<"last", 1>>}}

LookupCatalog(ts) ==
    [i \in 1..Len(ts) |->
        [Catalog(ts)[i] EXCEPT
            !.item_id = ts[i].item_id,
            !.default_state_id =
                IF ts[i].default = "first" THEN @ ELSE @ + Len(ts[i].attrs) - 1]]

LookupCatalogs == {LookupCatalog(ts) : ts \in SeqsUpTo(LookupTemplates, MaxBlocks) \ {<<>>}}

\* the strings given as values, and the (key, value) pairs given to from_props
ValuePool == {"true", "false", "0", "2", "x", "lit"}
PairPool == {<<"powered", "true">>, <<"powered", "false">>, <<"level", "2">>,
             <<"level", "0">>, <<"axis", "x">>, <<"lit", "true">>}

\* a lookup is made on what the build generated; the lookups change
\* nothing, so each behaviour makes one
Asked == built = "yes" /\ ret = NoRet

\* Props::default(block)
Default ==
    /\ Asked
    /\ \E b \in PropBlocks :
         LET block == gen.optimized_blocks[b]
         IN ret' = [op |-> "default", block |-> b,
                    result |-> default(TypesOf(gen, block.name), block)]
    /\ UNCHANGED <<stacks, pending, registry, blocks, built, gen, world, wire_gives_power, drv>>

\* Props::from_props(props, block) for lists of at most two pairs
FromProps ==
    /\ Asked
    /\ \E b \in PropBlocks :
         LET block == gen.optimized_blocks[b]
             types == TypesOf(gen, block.name)
             names == field_names(EntriesOf(gen, block.name))
         IN \E props \in SeqsUpTo(PairPool, 2) :
              ret' = [op |-> "from_props", block |-> b, props |-> props,
                      default |-> default(types, block),
                      result |-> from_props(types, names, props, block)]
    /\ UNCHANGED <<stacks, pending, registry, blocks, built, gen, world, wire_gives_power, drv>>

\* the four conversions of a generated property enum
EnumVariants ==
    /\ Asked
    /\ \E e \in 1..Len(gen.properties) :
         LET p == gen.properties[e]
         IN \/ \E v \in Range(p.values) :
                 ret' = [op |-> "enum_to_index", enum |-> p, v |-> v,
                         index |-> enum_to_index(p, v),
                         back |-> enum_from_index(p, enum_to_index(p, v))]
            \/ \E index \in 0..(Len(p.values) + 1) :
                 ret' = [op |-> "enum_from_index", enum |-> p, index |-> index,
                         result |-> enum_from_index(p, index)]
            \/ \E v \in Range(p.values) :
                 ret' = [op |-> "enum_to_value", enum |-> p, v |-> v,
                         value |-> enum_to_value(p, v),
                         back |-> enum_from_value(p, enum_to_value(p, v))]
            \/ \E value \in ValuePool :
                 ret' = [op |-> "enum_from_value", enum |-> p, value |-> value,
                         result |-> enum_from_value(p, value)]
    /\ UNCHANGED <<stacks, pending, registry, blocks, built, gen, world, wire_gives_power, drv>>

\* Block::from_registry_key, from_id, from_state_id and from_item_id
BlockLookup ==
    /\ Asked
    /\ \E key \in 0..(MaxStateId(blocks) + 1) :
         \/ ret' = [op |-> "from_registry_key", key |-> key,
                    result |-> Block_from_registry_key(gen, key)]
         \/ ret' = [op |-> "from_id", key |-> key, result |-> Block_from_id(gen, key)]
         \/ ret' = [op |-> "from_state_id_block", key |-> key,
                    result |-> Block_from_state_id(gen, key)]
         \/ ret' = [op |-> "from_item_id", key |-> key,
                    result |-> Block_from_item_id(gen, key)]
    /\ UNCHANGED <<stacks, pending, registry, blocks, built, gen, world, wire_gives_power, drv>>

\* block.properties(state_id)
BlockPropertiesOf ==
    /\ Asked
    /\ \E b \in 1..Len(gen.optimized_blocks), state_id \in 0..(MaxStateId(blocks) + 1) :
         ret' = [op |-> "properties", block |-> b, state_id |-> state_id,
                 result |-> Block_properties(gen, gen.optimized_blocks[b], state_id)]
    /\ UNCHANGED <<stacks, pending, registry, blocks, built, gen, world, wire_gives_power, drv>>

\* block.from_properties(props) for lists of at most one pair
BlockFromProperties ==
    /\ Asked
    /\ \E b \in 1..Len(gen.optimized_blocks), props \in SeqsUpTo(PairPool, 1) :
         ret' = [op |-> "from_properties", block |-> b, props |-> props,
                 result |-> Block_from_properties(gen, gen.optimized_blocks[b], props)]
    /\ UNCHANGED <<stacks, pending, registry, blocks, built, gen, world, wire_gives_power, drv>>

LookupNext ==
    \/ Build \/ Default \/ FromProps \/ EnumVariants \/ BlockLookup
    \/ BlockPropertiesOf \/ BlockFromProperties

----------------------------------------------------------------------------
(* The world: positions, directions and block states.                      *)

Down == "down"
Up == "up"
North == "north"
South == "south"
West == "west"
East == "east"

\* BlockDirection::all(), ::horizontal(), ::vertical()
all == <<Down, Up, North, South, West, East>>
horizontal == <<North, South, West, East>>
vertical == <<Down, Up>>

to_offset(direction) ==
    CASE direction = Down -> <<0, -1, 0>>
      [] direction = Up -> <<0, 1, 0>>
      [] direction = North -> <<0, 0, -1>>
      [] direction = South -> <<0, 0, 1>>
      [] direction = West -> <<-1, 0, 0>>
      [] direction = East -> <<1, 0, 0>>

opposite(direction) ==
    CASE direction = Down -> Up
      [] direction = Up -> Down
      [] direction = North -> South
      [] direction = South -> North
      [] direction = West -> East
      [] direction = East -> West

offset(pos, o) == <<pos[1] + o[1], pos[2] + o[2], pos[3] + o[3]>>
up(pos) == offset(pos, to_offset(Up))
down(pos) == offset(pos, to_offset(Down))

\* a block state: the block and the properties the redstone code decodes
\* (power and connections of a wire, facing and powered of the others)
BlockState(block, power, north, south, east, west, facing, powered) ==
    [block |-> block, power |-> power, north |-> north, south |-> south,
     east |-> east, west |-> west, facing |-> facing, powered |-> powered]

AIR == "air"
STONE == "stone"
OAK_TRAPDOOR == "oak_trapdoor"
REDSTONE_WIRE == "redstone_wire"
REDSTONE_BLOCK == "redstone_block"
LEVER == "lever"
REPEATER == "repeater"
OBSERVER == "observer"

Plain(block) == BlockState(block, 0, "none", "none", "none", "none", North, FALSE)
AirState == Plain(AIR)
Stone == Plain(STONE)
Wire(power, north, south, east, west) ==
    BlockState(REDSTONE_WIRE, power, north, south, east, west, North, FALSE)
Lever(facing, powered) ==
    BlockState(LEVER, 0, "none", "none", "none", "none", facing, powered)

\* state.is_solid
is_solid(state) == state.block \in {STONE, REDSTONE_BLOCK}

\* world.get_block_state(pos): the world outside the described region is air
get_block_state(w, pos) == IF pos \in DOMAIN w THEN w[pos] ELSE AirState

\* world.set_block_state(pos, state)
set_block_state(w, pos, state) ==
    [q \in (DOMAIN w) \cup {pos} |-> IF q = pos THEN state ELSE w[q]]

\* block.is_tagged_with("minecraft:trapdoors")
is_trapdoor(state) == state.block = OAK_TRAPDOOR

\* default_registry(): of the blocks of the worlds below, the lever
default_registry == {LEVER}

\* the registries a server runs with: the default one, and the default one
\* with manager.register(RedstoneWireBlock { .. }) for the wire's behaviour
Registries == {default_registry, default_registry \cup {REDSTONE_WIRE}}

\* server.block_registry.get_pumpkin_block(&block) is Some
has_pumpkin_block(state) == state.block \in registry

----------------------------------------------------------------------------
(* The state ids of the wire: RedstoneWireLikeProperties, the property set *)
(* generated for minecraft:redstone_wire, and Block::AIR.                  *)

AIR_default_state_id == 0

\* the values of Integer0To15, in the order of its variants L0 .. L15
Integer0To15 ==
    <<"0", "1", "2", "3", "4", "5", "6", "7", "8", "9", "10", "11", "12", "13", "14", "15">>

\* the enums of the wire's properties, as generated
WireProperties ==
    <<[name |-> "EastWireConnection", values |-> <<"up", "side", "none">>],
      [name |-> "NorthWireConnection", values |-> <<"up", "side", "none">>],
      [name |-> "Integer0To15", values |-> Integer0To15],
      [name |-> "SouthWireConnection", values |-> <<"up", "side", "none">>],
      [name |-> "WestWireConnection", values |-> <<"up", "side", "none">>]>>

\* the wire's properties in the catalog's order, each with its enum
WireEntries ==
    <<(<<"east", "EastWireConnection">>), (<<"north", "NorthWireConnection">>),
      (<<"power", "Integer0To15">>), (<<"south", "SouthWireConnection">>),
      (<<"west", "WestWireConnection">>)>>

WireTypes == field_types(WireProperties, WireEntries)

\* the first state id of Block::REDSTONE_WIRE in the catalog
WireFirstStateId == 3000

\* Block::REDSTONE_WIRE: its first and last state
REDSTONE_WIRE_BLOCK ==
    [states |-> <<[id |-> WireFirstStateId],
                  [id |-> WireFirstStateId + Cardinalities(WireTypes) - 1]>>]

\* the value of the field `name` of the wire properties props
wire_field(props, name) ==
    CASE name = "power" -> Integer0To15[props.power + 1]
      [] name = "east" -> props.east
      [] name = "north" -> props.north
      [] name = "south" -> props.south
      [] name = "west" -> props.west

\* wire_props.to_state_id(&Block::REDSTONE_WIRE)
wire_to_state_id(props) ==
    to_state_id(WireTypes,
                [i \in 1..Len(WireTypes) |-> wire_field(props, field_names(WireEntries)[i])],
                REDSTONE_WIRE_BLOCK)

\* the fields decoded by from_index, as wire properties
wire_of_fields(a) ==
    LET names == field_names(WireEntries)
        at(name) == a[Position(names, name)]
    IN BlockState(REDSTONE_WIRE, Position(Integer0To15, at("power")) - 1,
                  at("north"), at("south"), at("east"), at("west"), North, FALSE)

\* RedstoneWireLikeProperties::from_state_id(state_id, &Block::REDSTONE_WIRE)
wire_from_state_id(state_id) ==
    wire_of_fields(from_state_id(WireTypes, state_id, REDSTONE_WIRE_BLOCK)[1])

----------------------------------------------------------------------------
(* RedstoneWireBlock: connections.                                         *)

is_connected(connection) == connection # "none"

get_connection_type(props, direction) ==
    CASE direction = North -> props.north
      [] direction = South -> props.south
      [] direction = East -> props.east
      [] direction = West -> props.west
      [] OTHER -> "none"

set_connection(connection, props, direction) ==
    CASE direction = North -> [props EXCEPT !.north = connection]
      [] direction = South -> [props EXCEPT !.south = connection]
      [] direction = East -> [props EXCEPT !.east = connection]
      [] direction = West -> [props EXCEPT !.west = connection]
      [] OTHER -> props

is_fully_connected(props) ==
    /\ is_connected(props.north) /\ is_connected(props.south)
    /\ is_connected(props.east) /\ is_connected(props.west)

is_not_connected(props) ==
    /\ ~is_connected(props.north) /\ ~is_connected(props.south)
    /\ ~is_connected(props.east) /\ ~is_connected(props.west)

is_side_connected(props, direction) == is_connected(get_connection_type(props, direction))

DOT_STATE == Wire(0, "side", "side", "side", "side")

\* RedstoneWireLikeProperties::default(&Block::REDSTONE_WIRE)
WireDefault == Wire(0, "none", "none", "none", "none")

can_run_on_top(floor) == TRUE

\* RedstoneWireBlock::emits_redstone_power and LeverBlock::emits_redstone_power
emits_redstone_power(flag, state) ==
    CASE state.block = REDSTONE_WIRE -> flag
      [] state.block = LEVER -> TRUE
      [] OTHER -> FALSE

NoDirection == "no_direction"

\* connects_to with the observer treated as the repeater is
connects_to_observer_as_repeater(flag, state, direction) ==
    IF state.block = REDSTONE_WIRE THEN TRUE
    ELSE IF state.block \in {REPEATER, OBSERVER}
    THEN direction # NoDirection
         /\ (state.facing = direction \/ state.facing = opposite(direction))
    ELSE IF has_pumpkin_block(state)
    THEN emits_redstone_power(flag, state) /\ direction # NoDirection
    ELSE FALSE

\* direction is NoDirection for None
connects_to(flag, state, direction) ==
    IF state.block = REDSTONE_WIRE THEN TRUE
    ELSE IF state.block = REPEATER
    THEN direction # NoDirection
         /\ (state.facing = direction \/ state.facing = opposite(direction))
    ELSE IF state.block = OBSERVER
    THEN direction # NoDirection /\ state.facing = direction
    ELSE IF has_pumpkin_block(state)
    THEN emits_redstone_power(flag, state) /\ direction # NoDirection
    ELSE FALSE

\* get_render_connection_type without the test of the block below the
\* neighbour
get_render_connection_type_no_below(flag, w, location, direction, not_solid) ==
    LET other_block_pos == offset(location, to_offset(direction))
        other_block_state == get_block_state(w, other_block_pos)
        run_on_top == is_trapdoor(other_block_state) \/ can_run_on_top(other_block_state)
        connects_up == connects_to(flag, get_block_state(w, up(other_block_pos)), NoDirection)
    IN IF not_solid /\ run_on_top /\ connects_up
       THEN IF is_solid(other_block_state) THEN "up" ELSE "side"
       ELSE IF ~connects_to(flag, other_block_state, direction) THEN "none" ELSE "side"

get_render_connection_type(flag, w, location, direction, not_solid) ==
    LET other_block_pos == offset(location, to_offset(direction))
        other_block_state == get_block_state(w, other_block_pos)
        run_on_top == is_trapdoor(other_block_state) \/ can_run_on_top(other_block_state)
        connects_up == connects_to(flag, get_block_state(w, up(other_block_pos)), NoDirection)
    IN IF not_solid /\ run_on_top /\ connects_up
       THEN IF is_solid(other_block_state) THEN "up" ELSE "side"
       ELSE IF /\ ~connects_to(flag, other_block_state, direction)
               /\ \/ is_solid(other_block_state)
                  \/ ~connects_to(flag, get_block_state(w, down(other_block_pos)), NoDirection)
       THEN "none"
       ELSE "side"

RECURSIVE get_default_wire_state_loop(_, _, _, _, _)
get_default_wire_state_loop(flag, w, block_pos, props, i) ==
    IF i > Len(horizontal) THEN props
    ELSE LET direction == horizontal[i]
             not_solid == ~is_solid(get_block_state(w, up(block_pos)))
         IN get_default_wire_state_loop(flag, w, block_pos,
                IF ~is_side_connected(props, direction)
                THEN set_connection(
                        get_render_connection_type(flag, w, block_pos, direction, not_solid),
                        props, direction)
                ELSE props,
                i + 1)

get_default_wire_state(flag, w, block_pos, props) ==
    get_default_wire_state_loop(flag, w, block_pos, props, 1)

\* the end of get_placement_state with the early return taken when the old
\* state was connected
placement_of_negated(not_connected, props) ==
    IF ~not_connected /\ is_not_connected(props) THEN props
    ELSE [props EXCEPT
            !.west = IF ~is_connected(props.west)
                        /\ ~is_connected(props.north) /\ ~is_connected(props.south)
                     THEN "side" ELSE @,
            !.east = IF ~is_connected(props.east)
                        /\ ~is_connected(props.north) /\ ~is_connected(props.south)
                     THEN "side" ELSE @,
            !.north = IF ~is_connected(props.north)
                         /\ ~is_connected(props.east) /\ ~is_connected(props.west)
                      THEN "side" ELSE @,
            !.south = IF ~is_connected(props.south)
                         /\ ~is_connected(props.east) /\ ~is_connected(props.west)
                      THEN "side" ELSE @]

\* the end of get_placement_state forcing only west and east
placement_of_west_east(not_connected, props) ==
    LET is_north_south_disconnected ==
            ~is_connected(props.north) /\ ~is_connected(props.south)
    IN IF not_connected /\ is_not_connected(props) THEN props
       ELSE [props EXCEPT
                !.west = IF ~is_connected(props.west) /\ is_north_south_disconnected
                         THEN "side" ELSE @,
                !.east = IF ~is_connected(props.east) /\ is_north_south_disconnected
                         THEN "side" ELSE @]

\* the end of get_placement_state, on the connections resolved by
\* get_default_wire_state
placement_of(not_connected, props) ==
    LET north_connected == is_connected(props.north)
        south_connected == is_connected(props.south)
        east_connected == is_connected(props.east)
        west_connected == is_connected(props.west)
        is_north_south_disconnected == ~north_connected /\ ~south_connected
        is_east_west_disconnected == ~east_connected /\ ~west_connected
    IN IF not_connected /\ is_not_connected(props) THEN props
       ELSE [props EXCEPT
                !.west = IF ~west_connected /\ is_north_south_disconnected THEN "side" ELSE @,
                !.east = IF ~east_connected /\ is_north_south_disconnected THEN "side" ELSE @,
                !.north = IF ~north_connected /\ is_east_west_disconnected THEN "side" ELSE @,
                !.south = IF ~south_connected /\ is_east_west_disconnected THEN "side" ELSE @]

\* get_placement_state without "props.power = old_props.power"
get_placement_state_default_power(flag, w, block_pos, old_props) ==
    placement_of(is_not_connected(old_props),
                 get_default_wire_state(flag, w, block_pos, WireDefault))

\* get_placement_state without the early return for a wire that had and
\* has no connection
get_placement_state_no_return(flag, w, block_pos, old_props) ==
    placement_of(FALSE,
                 get_default_wire_state(flag, w, block_pos,
                    [WireDefault EXCEPT !.power = old_props.power]))

get_placement_state(flag, w, block_pos, old_props) ==
    placement_of(is_not_connected(old_props),
                 get_default_wire_state(flag, w, block_pos,
                    [WireDefault EXCEPT !.power = old_props.power]))

\* on_place seeded with the default state of the wire, not with DOT_STATE
on_place_from_default(flag, w, block_pos) ==
    wire_to_state_id(get_placement_state(flag, w, block_pos, WireDefault))

\* RedstoneWireBlock::on_place: the state id of the placed wire
on_place(flag, w, block_pos) ==
    wire_to_state_id(get_placement_state(flag, w, block_pos, DOT_STATE))

\* the side branch of get_state_for_neighbor_update, wire_connection_type
\* being the connection resolved toward source_face
side_update(flag, w, block_pos, wire_props, wire_connection_type, source_face) ==
    IF /\ is_connected(wire_connection_type)
            = is_connected(get_connection_type(wire_props, source_face))
       /\ ~is_fully_connected(wire_props)
    THEN wire_to_state_id(set_connection(wire_connection_type, wire_props, source_face))
    ELSE wire_to_state_id(
            get_placement_state(flag, w, block_pos,
                set_connection(wire_connection_type,
                               [DOT_STATE EXCEPT !.power = wire_props.power],
                               source_face)))

\* state_id is state.id, the id of a wire state
get_state_for_neighbor_update(flag, w, block_pos, state_id, source_face, source_block_pos) ==
    IF source_face = Down
    THEN IF ~can_run_on_top(get_block_state(w, source_block_pos))
         THEN AIR_default_state_id
         ELSE state_id
    ELSE IF source_face = Up
    THEN wire_to_state_id(
            get_placement_state(flag, w, block_pos, wire_from_state_id(state_id)))
    ELSE side_update(flag, w, block_pos, wire_from_state_id(state_id),
            get_render_connection_type(flag, w, block_pos, source_face,
                ~is_solid(get_block_state(w, up(block_pos)))),
            source_face)

----------------------------------------------------------------------------
(* Power queries of the block behaviours.  The flag argument is the value  *)
(* wire_gives_power.load() returns during the query.                       *)

\* get_weak_redstone_power testing the connection toward direction itself
wire_get_weak_redstone_power_same_side(flag, w, block_pos, state, direction) ==
    IF flag /\ direction # Down
    THEN IF state.power = 0 THEN 0
         ELSE IF /\ direction # Up
                 /\ ~is_connected(get_connection_type(
                        get_placement_state(flag, w, block_pos, state), direction))
         THEN 0
         ELSE state.power
    ELSE 0

wire_get_weak_redstone_power(flag, w, block_pos, state, direction) ==
    IF flag /\ direction # Down
    THEN IF state.power = 0 THEN 0
         ELSE IF /\ direction # Up
                 /\ ~is_connected(get_connection_type(
                        get_placement_state(flag, w, block_pos, state), opposite(direction)))
         THEN 0
         ELSE state.power
    ELSE 0

\* get_strong_redstone_power answering the stored power
wire_get_strong_redstone_power_stored(flag, w, block_pos, state, direction) ==
    IF flag THEN state.power ELSE 0

wire_get_strong_redstone_power(flag, w, block_pos, state, direction) ==
    IF flag THEN wire_get_weak_redstone_power(flag, w, block_pos, state, direction) ELSE 0

lever_get_weak_redstone_power(state) == IF state.powered THEN 15 ELSE 0

lever_get_strong_redstone_power(state, direction) ==
    IF state.powered /\ direction = state.facing THEN 15 ELSE 0

\* pumpkin_block.get_weak_redstone_power(..) of the behaviour of the block
get_weak_redstone_power(flag, w, block_pos, state, direction) ==
    CASE state.block = REDSTONE_WIRE ->
            wire_get_weak_redstone_power(flag, w, block_pos, state, direction)
      [] state.block = LEVER -> lever_get_weak_redstone_power(state)
      [] OTHER -> 0

\* pumpkin_block.get_strong_redstone_power(..) of the behaviour of the block
behaviour_strong_power(flag, w, block_pos, state, direction) ==
    CASE state.block = REDSTONE_WIRE ->
            wire_get_strong_redstone_power(flag, w, block_pos, state, direction)
      [] state.block = LEVER -> lever_get_strong_redstone_power(state, direction)
      [] OTHER -> 0

\* redstone_view::get_strong_redstone_power: 0 for a block with no behaviour
get_strong_redstone_power(flag, w, block_pos, direction) ==
    IF has_pumpkin_block(get_block_state(w, block_pos))
    THEN behaviour_strong_power(flag, w, block_pos, get_block_state(w, block_pos), direction)
    ELSE 0

Max(a, b) == IF a >= b THEN a ELSE b

\* the loop of get_received_strong_redstone_power from direction all[i] on,
\* power being the maximum so far; asked counts the directions queried
RECURSIVE received_strong_loop(_, _, _, _, _, _)
received_strong_loop(flag, w, block_pos, i, power, asked) ==
    IF power >= 15 \/ i > Len(all) THEN [power |-> power, asked |-> asked]
    ELSE \* p is the maximum once direction all[i] was asked
         CHOOSE r \in {received_strong_loop(flag, w, block_pos, i + 1, p, asked + 1) :
                        p \in {Max(power, get_strong_redstone_power(flag, w, block_pos,
                                                                    all[i]))}} : TRUE

get_received_strong_redstone_power(flag, w, block_pos) ==
    received_strong_loop(flag, w, block_pos, 1, 0, 0)

\* the power of the behaviour at block_pos, 0 when the block has none
behaviour_weak_power(flag, w, block_pos, state, direction) ==
    IF has_pumpkin_block(state)
    THEN get_weak_redstone_power(flag, w, block_pos, state, direction)
    ELSE 0

get_emitted_redstone_power(flag, w, block_pos, direction) ==
    IF is_solid(get_block_state(w, block_pos))
    THEN Max(behaviour_weak_power(flag, w, block_pos, get_block_state(w, block_pos), direction),
             get_received_strong_redstone_power(flag, w, block_pos).power)
    ELSE behaviour_weak_power(flag, w, block_pos, get_block_state(w, block_pos), direction)

\* the loop asking the block at block_pos itself in every direction
RECURSIVE received_loop_at_itself(_, _, _, _, _, _)
received_loop_at_itself(flag, w, block_pos, i, power, asked) ==
    IF power >= 15 \/ i > Len(all) THEN [power |-> power, asked |-> asked]
    ELSE CHOOSE r \in {received_loop_at_itself(flag, w, block_pos, i + 1, p, asked + 1) :
            p \in {Max(power, get_emitted_redstone_power(flag, w, block_pos, all[i]))}} : TRUE

\* the loop of get_received_redstone_power from direction all[i] on
RECURSIVE received_loop(_, _, _, _, _, _)
received_loop(flag, w, block_pos, i, power, asked) ==
    IF power >= 15 \/ i > Len(all) THEN [power |-> power, asked |-> asked]
    ELSE \* p is the maximum once direction all[i] was asked
         CHOOSE r \in {received_loop(flag, w, block_pos, i + 1, p, asked + 1) :
            p \in {Max(power, get_emitted_redstone_power(flag, w,
                            offset(block_pos, to_offset(all[i])), all[i]))}} : TRUE

get_received_redstone_power(flag, w, block_pos) == received_loop(flag, w, block_pos, 1, 0, 0)

\* get_emitted_redstone_power_with_gate with the wire asked as any behaviour
get_emitted_redstone_power_with_gate_by_behaviour(flag, w, block_pos, direction, only_from_gate) ==
    LET state == get_block_state(w, block_pos)
    IN IF only_from_gate THEN 0
       ELSE IF state.block = REDSTONE_BLOCK THEN 15
       ELSE IF has_pumpkin_block(state) /\ emits_redstone_power(flag, state)
       THEN get_strong_redstone_power(flag, w, block_pos, direction)
       ELSE 0

get_emitted_redstone_power_with_gate(flag, w, block_pos, direction, only_from_gate) ==
    LET state == get_block_state(w, block_pos)
    IN IF only_from_gate THEN 0
       ELSE IF state.block = REDSTONE_BLOCK THEN 15
       ELSE IF state.block = REDSTONE_WIRE
       THEN wire_from_state_id(wire_to_state_id(state)).power
       ELSE IF has_pumpkin_block(state) /\ emits_redstone_power(flag, state)
       THEN get_strong_redstone_power(flag, w, block_pos, direction)
       ELSE 0

WirePositions(w) == {pos \in DOMAIN w : w[pos].block = REDSTONE_WIRE}

----------------------------------------------------------------------------
(* Queries of redstone_view on a world at rest.                            *)

Origin == <<0, 0, 0>>

WorldOf(setting) == [pos \in DOMAIN setting |-> setting[pos]]

ViewBlocks == {AirState, Stone, Lever(West, TRUE), Wire(7, "side", "side", "side", "side"),
               Plain(REDSTONE_BLOCK)}

ViewWorlds ==
    {(Origin :> c) @@ (offset(Origin, to_offset(West)) :> a)
        @@ (offset(Origin, to_offset(Up)) :> b) :
        c \in ViewBlocks, a \in ViewBlocks, b \in {AirState, Stone, Lever(Up, TRUE)}}

IdleDrivers(ds) == [d \in ds |-> [pc |-> "idle", pos |-> Origin, i |-> 0, power |-> 0, saw |-> FALSE]]

ViewInit ==
    /\ world \in ViewWorlds
    /\ registry \in Registries
    /\ pending = <<>>
    /\ stacks = <<>>
    /\ wire_gives_power \in BOOLEAN
    /\ drv = IdleDrivers({})
    /\ ret = NoRet
    /\ blocks = <<>> /\ built = "no" /\ gen = <<>>

ReceivedStrong ==
    /\ \E block_pos \in DOMAIN world :
         ret' = [op |-> "get_received_strong_redstone_power", pos |-> block_pos,
                 result |-> get_received_strong_redstone_power(wire_gives_power, world,
                                                               block_pos)]
    /\ UNCHANGED <<stacks, pending, registry, blocks, built, gen, world, wire_gives_power, drv>>

Emitted ==
    /\ \E block_pos \in DOMAIN world, direction \in Range(all) :
         ret' = [op |-> "get_emitted_redstone_power", pos |-> block_pos,
                 direction |-> direction,
                 power |-> get_emitted_redstone_power(wire_gives_power, world, block_pos,
                                                      direction)]
    /\ UNCHANGED <<stacks, pending, registry, blocks, built, gen, world, wire_gives_power, drv>>

Received ==
    /\ \E block_pos \in DOMAIN world :
         ret' = [op |-> "get_received_redstone_power", pos |-> block_pos,
                 result |-> get_received_redstone_power(wire_gives_power, world, block_pos)]
    /\ UNCHANGED <<stacks, pending, registry, blocks, built, gen, world, wire_gives_power, drv>>

EmittedWithGate ==
    /\ \E block_pos \in DOMAIN world, direction \in Range(all), only_from_gate \in BOOLEAN :
         ret' = [op |-> "get_emitted_redstone_power_with_gate", pos |-> block_pos,
                 direction |-> direction, only_from_gate |-> only_from_gate,
                 result |-> get_emitted_redstone_power_with_gate(wire_gives_power, world,
                                block_pos, direction, only_from_gate)]
    /\ UNCHANGED <<stacks, pending, registry, blocks, built, gen, world, wire_gives_power, drv>>

ViewNext == ReceivedStrong \/ Emitted \/ Received \/ EmittedWithGate

----------------------------------------------------------------------------
(* RedstoneWireBlock::get_strong_power, one step per await of its query.   *)
(* A driver is a task of the server that calls block behaviours.           *)

GuardWorlds ==
    {(Origin :> Wire(p0, "side", "side", "side", "side"))
        @@ (<<1, 0, 0>> :> Wire(p1, "side", "side", "side", "side"))
        @@ (<<0, 0, 1>> :> s) @@ (<<2, 0, 0>> :> t) :
        p0 \in {0, 7}, p1 \in {0, 9}, s \in {AirState, Lever(North, TRUE)},
        t \in {AirState, Stone}}

GuardInit(ds) ==
    /\ world \in GuardWorlds
    /\ registry \in Registries
    /\ pending = <<>>
    /\ stacks = <<>>
    /\ wire_gives_power = TRUE
    /\ drv = IdleDrivers(ds)
    /\ ret = NoRet
    /\ blocks = <<>> /\ built = "no" /\ gen = <<>>

Busy(d) == drv[d].pc \in {"query", "restore"}

\* get_strong_power is called for the wire at block_pos: the flag is cleared
Start(d) ==
    /\ drv[d].pc = "idle"
    /\ \E block_pos \in WirePositions(world) :
         drv' = [drv EXCEPT ![d] = [pc |-> "query", pos |-> block_pos, i |-> 1,
                                    power |-> 0, saw |-> FALSE]]
    /\ wire_gives_power' = FALSE
    /\ UNCHANGED <<stacks, pending, registry, blocks, built, gen, ret, world>>

\* the driver's call after an iteration that found `power` and loaded the
\* flag when `loads`
after_query(call, power, loads, flag) ==
    [call EXCEPT !.power = Max(@, power),
                 !.saw = @ \/ (loads /\ flag),
                 !.i = IF Max(call.power, power) >= 15 \/ @ = Len(all) THEN @ ELSE @ + 1,
                 !.pc = IF Max(call.power, power) >= 15 \/ call.i = Len(all)
                        THEN "restore" ELSE "query"]

\* one iteration of get_received_redstone_power: the emitted power of the
\* neighbour in direction all[i]; the behaviour of a wire there, when
\* registered, loads the flag
Query(d) ==
    /\ drv[d].pc = "query"
    /\ drv' = [drv EXCEPT ![d] =
                after_query(@,
                    get_emitted_redstone_power(wire_gives_power, world,
                        offset(@.pos, to_offset(all[@.i])), all[@.i]),
                    REDSTONE_WIRE \in registry
                        /\ get_block_state(world, offset(@.pos, to_offset(all[@.i]))).block
                                = REDSTONE_WIRE,
                    wire_gives_power)]
    /\ UNCHANGED <<stacks, pending, registry, blocks, built, gen, ret, world, wire_gives_power>>

\* get_strong_power without the store of true after the query
Restore_no_store(d) ==
    /\ drv[d].pc = "restore"
    /\ drv' = [drv EXCEPT ![d].pc = "done"]
    /\ ret' = [op |-> "get_strong_power", driver |-> d, pos |-> drv[d].pos,
               power |-> drv[d].power]
    /\ UNCHANGED <<stacks, pending, registry, blocks, built, gen, world, wire_gives_power>>

\* the query is over: the flag is set and the power returned
Restore(d) ==
    /\ drv[d].pc = "restore"
    /\ wire_gives_power' = TRUE
    /\ drv' = [drv EXCEPT ![d].pc = "done"]
    /\ ret' = [op |-> "get_strong_power", driver |-> d, pos |-> drv[d].pos,
               power |-> drv[d].power]
    /\ UNCHANGED <<stacks, pending, registry, blocks, built, gen, world>>

\* the caller goes on; the driver may call again
Return(d) ==
    /\ drv[d].pc = "done"
    /\ drv' = [drv EXCEPT ![d] = [pc |-> "idle", pos |-> Origin, i |-> 0, power |-> 0,
                                  saw |-> FALSE]]
    /\ UNCHANGED <<stacks, pending, registry, blocks, built, gen, ret, world, wire_gives_power>>

\* a driver that is not computing asks the wire at block_pos for its powers
WireQuery(d) ==
    /\ drv[d].pc = "idle"
    /\ \E block_pos \in WirePositions(world), direction \in Range(all) :
         LET state == get_block_state(world, block_pos)
         IN ret' = [op |-> "wire_query", driver |-> d, pos |-> block_pos,
                    direction |-> direction,
                    busy |-> {drv[e].pos : e \in {x \in DOMAIN drv : Busy(x)}},
                    emits |-> emits_redstone_power(wire_gives_power, state),
                    weak |-> wire_get_weak_redstone_power(wire_gives_power, world,
                                                          block_pos, state, direction),
                    strong |-> wire_get_strong_redstone_power(wire_gives_power, world,
                                                              block_pos, state, direction)]
    /\ UNCHANGED <<stacks, pending, registry, blocks, built, gen, world, wire_gives_power, drv>>

StartSome == \E d \in DOMAIN drv : Start(d)
QuerySome == \E d \in DOMAIN drv : Query(d)
RestoreSome == \E d \in DOMAIN drv : Restore(d)
ReturnSome == \E d \in DOMAIN drv : Return(d)
WireQuerySome == \E d \in DOMAIN drv : WireQuery(d)

GuardNext == StartSome \/ QuerySome \/ RestoreSome \/ ReturnSome \/ WireQuerySome

----------------------------------------------------------------------------
(* RedstoneWireBlock::on_neighbor_update.                                  *)

can_place(w, block_pos) == can_run_on_top(get_block_state(w, down(block_pos)))

\* get_strong_power run alone: the query sees the flag cleared
get_strong_power(w, block_pos) == get_received_redstone_power(FALSE, w, block_pos).power

\* redstone_controller::update: the wire takes the power it receives
with_power(w, block_pos, state, power) ==
    IF power = state.power THEN w
    ELSE set_block_state(w, block_pos, [state EXCEPT !.power = power])

redstone_controller_update(w, block_pos, state) ==
    with_power(w, block_pos, state, get_strong_power(w, block_pos))

on_neighbor_update(w, block_pos) ==
    LET block_state == get_block_state(w, block_pos)
    IN IF can_place(w, block_pos)
       THEN redstone_controller_update(w, block_pos, block_state)
       ELSE set_block_state(w, block_pos, AirState)

WireShapes == {Wire(0, "side", "side", "side", "side"), Wire(0, "none", "none", "none", "none"),
               Wire(5, "side", "none", "none", "side"), Wire(15, "up", "side", "none", "none")}

WireWorlds ==
    {(Origin :> o) @@ (<<0, -1, 0>> :> f) @@ (<<0, 1, 0>> :> a) @@ (<<1, 0, 0>> :> e)
        @@ (<<1, 1, 0>> :> eu) @@ (<<1, -1, 0>> :> ed) @@ (<<0, 0, -1>> :> n) :
        o \in WireShapes, f \in {Stone, AirState, Plain(OAK_TRAPDOOR)},
        a \in {AirState, Stone},
        e \in {AirState, Stone, Lever(West, TRUE), Wire(3, "none", "none", "side", "side")},
        eu \in {AirState, Wire(0, "side", "side", "side", "side")},
        ed \in {AirState, Stone},
        n \in {AirState, Wire(9, "side", "side", "none", "none")}}

WireInit ==
    /\ world \in WireWorlds
    /\ registry \in Registries
    /\ pending = <<>>
    /\ stacks = <<>>
    /\ wire_gives_power = TRUE
    /\ drv = IdleDrivers({})
    /\ ret = NoRet
    /\ blocks = <<>> /\ built = "no" /\ gen = <<>>

\* a neighbour of the wire at block_pos changed
OnNeighborUpdate ==
    /\ \E block_pos \in WirePositions(world) :
         /\ world' = on_neighbor_update(world, block_pos)
         /\ ret' = [op |-> "on_neighbor_update", pos |-> block_pos,
                    floor |-> get_block_state(world, down(block_pos)),
                    state |-> get_block_state(world, block_pos)]
    /\ UNCHANGED <<stacks, pending, registry, blocks, built, gen, wire_gives_power, drv>>

WireNext == OnNeighborUpdate

----------------------------------------------------------------------------
(* Shape updates of a wire: World::update_neighbors_state asks the wire    *)
(* for its state after a change of the neighbour at source_face and swaps  *)
(* the state of the position for it.                                       *)

Connections == {"up", "side", "none"}

Repeater(facing) == BlockState(REPEATER, 0, "none", "none", "none", "none", facing, FALSE)
Observer(facing) == BlockState(OBSERVER, 0, "none", "none", "none", "none", facing, FALSE)

\* every shape of a wire of the given power
AllWires(power) ==
    {Wire(power, n, s, e, w) : n \in Connections, s \in Connections,
                               e \in Connections, w \in Connections}

\* the blocks above and below the east neighbour
EastColumns ==
    {<<AirState, AirState>>, <<Wire(0, "side", "side", "side", "side"), AirState>>,
     <<AirState, Wire(0, "side", "side", "side", "side")>>}

UpdateWorlds ==
    {(Origin :> o) @@ (<<0, -1, 0>> :> f) @@ (<<0, 1, 0>> :> a) @@ (<<1, 0, 0>> :> e)
        @@ (<<1, 1, 0>> :> c[1]) @@ (<<1, -1, 0>> :> c[2]) @@ (<<0, 0, -1>> :> n) :
        o \in AllWires(9), f \in {Stone, AirState}, a \in {AirState, Stone},
        e \in {AirState, Stone, Lever(West, TRUE), Wire(3, "none", "none", "side", "side")},
        c \in EastColumns,
        n \in {AirState, Wire(9, "side", "side", "none", "none")}}

UpdateInit ==
    /\ world \in UpdateWorlds
    /\ registry = default_registry
    /\ pending = <<>>
    /\ stacks = <<>>
    /\ wire_gives_power = TRUE
    /\ drv = IdleDrivers({})
    /\ ret = NoRet
    /\ blocks = <<>> /\ built = "no" /\ gen = <<>>

\* the state of a state id of the worlds above: air or a wire
state_of_id(state_id) ==
    IF state_id = AIR_default_state_id THEN AirState ELSE wire_from_state_id(state_id)

\* the call for the wire at Origin before this one was for the same face
SameCallAgain(source_face) ==
    /\ ret.op = "get_state_for_neighbor_update"
    /\ ret.source_face = source_face

\* the neighbour at source_face of the wire at Origin changed: the wire's
\* state is swapped for the one get_state_for_neighbor_update returns
GetStateForNeighborUpdate ==
    /\ get_block_state(world, Origin).block = REDSTONE_WIRE
    /\ \E source_face \in Range(all) :
         /\ ret' = [op |-> "get_state_for_neighbor_update", pos |-> Origin,
                    source_face |-> source_face,
                    state_id |-> wire_to_state_id(get_block_state(world, Origin)),
                    result |-> get_state_for_neighbor_update(wire_gives_power, world, Origin,
                                  wire_to_state_id(get_block_state(world, Origin)),
                                  source_face, offset(Origin, to_offset(source_face))),
                    again |-> SameCallAgain(source_face),
                    changed_before |-> SameCallAgain(source_face)
                                        /\ ret.result # ret.state_id]
         /\ world' = set_block_state(world, Origin, state_of_id(ret'.result))
    /\ UNCHANGED <<stacks, pending, registry, blocks, built, gen, wire_gives_power, drv>>

UpdateNext == GetStateForNeighborUpdate

----------------------------------------------------------------------------
(* Queries of the connections and of the power of a wire at Origin.        *)

ShapeWorlds ==
    {(Origin :> o) @@ (<<0, 1, 0>> :> a) @@ (<<1, 0, 0>> :> e)
        @@ (<<1, 1, 0>> :> c[1]) @@ (<<1, -1, 0>> :> c[2]) @@ (<<0, 0, -1>> :> n) :
        o \in {Wire(9, "none", "none", "none", "none"), Wire(9, "side", "side", "side", "side"),
               Wire(0, "side", "up", "none", "side")},
        a \in {AirState, Stone},
        e \in {AirState, Stone, Plain(OAK_TRAPDOOR), Lever(West, TRUE),
               Wire(3, "none", "none", "side", "side"),
               Repeater(East), Repeater(North), Observer(East), Observer(West)},
        c \in EastColumns,
        n \in {AirState, Wire(9, "side", "side", "none", "none")}}

ShapeWorldInit ==
    /\ world \in ShapeWorlds
    /\ registry = default_registry
    /\ pending = <<>>
    /\ stacks = <<>>
    /\ wire_gives_power \in BOOLEAN
    /\ drv = IdleDrivers({})
    /\ ret = NoRet
    /\ blocks = <<>> /\ built = "no" /\ gen = <<>>

\* connects_to on the state at a position, with Some(direction) for a
\* horizontal direction or with None
ConnectsTo ==
    /\ \E pos \in DOMAIN world, direction \in Range(horizontal) \cup {NoDirection} :
         ret' = [op |-> "connects_to", state |-> get_block_state(world, pos),
                 direction |-> direction,
                 result |-> connects_to(wire_gives_power, get_block_state(world, pos),
                                        direction)]
    /\ UNCHANGED <<stacks, pending, registry, blocks, built, gen, world, wire_gives_power, drv>>

GetRenderConnectionType ==
    /\ \E direction \in Range(horizontal), not_solid \in BOOLEAN :
         ret' = [op |-> "get_render_connection_type", pos |-> Origin,
                 direction |-> direction, not_solid |-> not_solid,
                 result |-> get_render_connection_type(wire_gives_power, world, Origin,
                                                       direction, not_solid)]
    /\ UNCHANGED <<stacks, pending, registry, blocks, built, gen, world, wire_gives_power, drv>>

\* a wire is placed at Origin, whatever is there
OnPlace ==
    /\ ret' = [op |-> "on_place", pos |-> Origin,
               result |-> on_place(wire_gives_power, world, Origin)]
    /\ UNCHANGED <<stacks, pending, registry, blocks, built, gen, world, wire_gives_power, drv>>

GetPlacementState ==
    /\ \E old_props \in {get_block_state(world, Origin), DOT_STATE, WireDefault,
                          Wire(5, "none", "up", "none", "none")} :
         ret' = [op |-> "get_placement_state", pos |-> Origin, old_props |-> old_props,
                 result |-> get_placement_state(wire_gives_power, world, Origin, old_props)]
    /\ UNCHANGED <<stacks, pending, registry, blocks, built, gen, world, wire_gives_power, drv>>

\* the behaviour of the wire at Origin is asked for its powers
WirePower ==
    /\ \E direction \in Range(all) :
         ret' = [op |-> "wire_power", pos |-> Origin, direction |-> direction,
                 weak |-> wire_get_weak_redstone_power(wire_gives_power, world, Origin,
                            get_block_state(world, Origin), direction),
                 strong |-> wire_get_strong_redstone_power(wire_gives_power, world, Origin,
                            get_block_state(world, Origin), direction)]
    /\ UNCHANGED <<stacks, pending, registry, blocks, built, gen, world, wire_gives_power, drv>>

ShapeNext == ConnectsTo \/ GetRenderConnectionType \/ OnPlace \/ GetPlacementState \/ WirePower

----------------------------------------------------------------------------
(* Cascades of neighbour updates.  The calls are nested in the code; here  *)
(* pending is the stack of the calls that remain, and each action runs the *)
(* one on top.                                                             *)

MaxPending == 400

Item(call, pos) == [call |-> call, pos |-> pos]

Top == Head(pending)

\* the calls made for each direction of ds, in order
RECURSIVE items_for(_, _, _, _)
items_for(call, pos, ds, i) ==
    IF i > Len(ds) THEN <<>>
    ELSE <<Item(call, offset(pos, to_offset(ds[i])))>> \o items_for(call, pos, ds, i + 1)

\* redstone_controller::update cascades when the state of the wire changed
controller_cascade_always(w, updated, block_pos) ==
    <<Item("update_offset_neighbors", block_pos)>>

controller_cascade(w, updated, block_pos) ==
    IF updated # w THEN <<Item("update_offset_neighbors", block_pos)>> ELSE <<>>

\* the calls placed() makes after redstone_controller::update
placed_updates(location) ==
    items_for("world_update_neighbors", location, vertical, 1)
        \o <<Item("update_offset_neighbors", location)>>

\* toggle_lever: the lever with powered flipped
flip(state) == [state EXCEPT !.powered = ~state.powered]

Square == {<<0, 0, 0>>, <<1, 0, 0>>, <<1, 0, 1>>, <<0, 0, 1>>}
LeverPos == <<-1, 0, 0>>

\* wires on the corners of a square, on a stone floor, one corner possibly a
\* stone block with a wire on top, and a lever beside the first corner
CascadeLayouts ==
    {(<<0, 0, 0>> :> a) @@ (<<1, 0, 0>> :> b[1]) @@ (<<1, 1, 0>> :> b[2])
        @@ (<<1, 0, 1>> :> c) @@ (<<0, 0, 1>> :> d) @@ (LeverPos :> l)
        @@ (<<0, -1, 0>> :> Stone) @@ (<<1, -1, 0>> :> Stone)
        @@ (<<1, -1, 1>> :> Stone) @@ (<<0, -1, 1>> :> Stone) @@ (<<-1, -1, 0>> :> Stone) :
        a \in {AirState, DOT_STATE}, c \in {AirState, DOT_STATE}, d \in {AirState, DOT_STATE},
        b \in {<<AirState, AirState>>, <<DOT_STATE, AirState>>, <<Stone, DOT_STATE>>},
        l \in {AirState, Lever(East, FALSE), Lever(East, TRUE)}}

\* the world at rest: each wire has the shape and the power of its place
Settled(w) ==
    [pos \in DOMAIN w |->
        IF w[pos].block = REDSTONE_WIRE
        THEN [get_placement_state(TRUE, w, pos, DOT_STATE) EXCEPT
                    !.power = get_strong_power(w, pos)]
        ELSE w[pos]]

CascadeInit ==
    /\ registry \in Registries
    /\ \E layout \in CascadeLayouts : world = Settled(layout)
    /\ pending = <<>>
    /\ stacks = <<>>
    /\ wire_gives_power = TRUE
    /\ drv = IdleDrivers({})
    /\ ret = NoRet
    /\ blocks = <<>> /\ built = "no" /\ gen = <<>>

\* a wire is put at location with the state id of on_place, then
\* RedstoneWireBlock::placed runs
Placed ==
    /\ pending = <<>> /\ ret = NoRet
    /\ REDSTONE_WIRE \in registry
    /\ \E location \in Square :
         /\ get_block_state(world, location) = AirState
         /\ \E state \in {wire_from_state_id(on_place(wire_gives_power, world, location))} :
            \E put \in {set_block_state(world, location, state)} :
            \E updated \in {redstone_controller_update(put, location, state)} :
            LET issued == controller_cascade(put, updated, location)
                            \o placed_updates(location)
            IN /\ world' = updated
               /\ pending' = issued
               /\ ret' = [op |-> "placed", pos |-> location,
                          before |-> wire_to_state_id(state),
                          after |-> wire_to_state_id(get_block_state(updated, location)),
                          issued |-> issued, cause |-> "placed"]
    /\ UNCHANGED <<stacks, registry, blocks, built, gen, wire_gives_power, drv>>

\* lever.rs toggle_lever: the neighbour change that starts a cascade
ToggleLever ==
    /\ pending = <<>> /\ ret = NoRet
    /\ get_block_state(world, LeverPos).block = LEVER
    /\ world' = set_block_state(world, LeverPos, flip(get_block_state(world, LeverPos)))
    /\ pending' = <<Item("world_update_neighbors", LeverPos)>>
    /\ ret' = [op |-> "toggle_lever", pos |-> LeverPos, cause |-> "toggle_lever"]
    /\ UNCHANGED <<stacks, registry, blocks, built, gen, wire_gives_power, drv>>

\* the step on top of the stack is replaced by the calls it makes
Replace(issued) ==
    /\ Len(Tail(pending)) + Len(issued) <= MaxPending
    /\ pending' = issued \o Tail(pending)

\* World::update_neighbors(pos, None): on_neighbor_update of the six
\* neighbours of pos
WorldUpdateNeighbors ==
    /\ pending # <<>> /\ Top.call = "world_update_neighbors"
    /\ Replace(items_for("on_neighbor_update", Top.pos, all, 1))
    /\ ret' = [op |-> Top.call, pos |-> Top.pos, cause |-> ret.cause]
    /\ UNCHANGED <<stacks, world, registry, blocks, built, gen, wire_gives_power, drv>>

\* the behaviour of the block at pos is told of a change beside it
NeighborUpdate ==
    /\ pending # <<>> /\ Top.call = "on_neighbor_update"
    /\ LET block_pos == Top.pos
           state == get_block_state(world, block_pos)
           acts == state.block = REDSTONE_WIRE /\ has_pumpkin_block(state)
       IN \E updated \in {IF acts THEN on_neighbor_update(world, block_pos) ELSE world} :
          \E issued \in {IF acts THEN controller_cascade(world, updated, block_pos)
                         ELSE <<>>} :
            /\ world' = updated
            /\ Replace(issued)
            /\ ret' = [op |-> Top.call, pos |-> block_pos, acts |-> acts,
                       floor |-> get_block_state(world, down(block_pos)),
                       state |-> state,
                       before |-> state, after |-> get_block_state(updated, block_pos),
                       issued |-> issued, cause |-> ret.cause]
    /\ UNCHANGED <<stacks, registry, blocks, built, gen, wire_gives_power, drv>>

\* RedstoneWireBlock::update_offset_neighbors
UpdateOffsetNeighbors ==
    /\ pending # <<>> /\ Top.call = "update_offset_neighbors"
    /\ Replace(items_for("update_neighbors", Top.pos, horizontal, 1)
                \o items_for("update_neighbors_beside", Top.pos, horizontal, 1))
    /\ ret' = [op |-> Top.call, pos |-> Top.pos, cause |-> ret.cause]
    /\ UNCHANGED <<stacks, world, registry, blocks, built, gen, wire_gives_power, drv>>

\* update_neighbors without the test that the block is a wire
UpdateNeighbors_any_block ==
    /\ pending # <<>> /\ Top.call \in {"update_neighbors", "update_neighbors_beside"}
    /\ LET block_pos == IF Top.call = "update_neighbors" THEN Top.pos
                        ELSE IF is_solid(get_block_state(world, Top.pos))
                        THEN up(Top.pos) ELSE down(Top.pos)
       IN /\ Replace(<<Item("world_update_neighbors", block_pos)>>
                            \o items_for("world_update_neighbors", block_pos, all, 1))
          /\ ret' = [op |-> Top.call, pos |-> block_pos, cause |-> ret.cause]
    /\ UNCHANGED <<stacks, world, registry, blocks, built, gen, wire_gives_power, drv>>

\* RedstoneWireBlock::update_neighbors at a position, or at the position
\* above a solid block and below another block
UpdateNeighbors ==
    /\ pending # <<>> /\ Top.call \in {"update_neighbors", "update_neighbors_beside"}
    /\ LET block_pos == IF Top.call = "update_neighbors" THEN Top.pos
                        ELSE IF is_solid(get_block_state(world, Top.pos))
                        THEN up(Top.pos) ELSE down(Top.pos)
       IN /\ Replace(IF get_block_state(world, block_pos).block = REDSTONE_WIRE
                     THEN <<Item("world_update_neighbors", block_pos)>>
                            \o items_for("world_update_neighbors", block_pos, all, 1)
                     ELSE <<>>)
          /\ ret' = [op |-> Top.call, pos |-> block_pos, cause |-> ret.cause]
    /\ UNCHANGED <<stacks, world, registry, blocks, built, gen, wire_gives_power, drv>>

CascadeStep ==
    WorldUpdateNeighbors \/ NeighborUpdate \/ UpdateOffsetNeighbors \/ UpdateNeighbors

CascadeNext == Placed \/ ToggleLever \/ CascadeStep

----------------------------------------------------------------------------
(* Doors.  The world holds the state id of each half; a call of            *)
(* toggle_door runs in four steps, one for each await.                     *)

\* the properties of a door in the catalog
DoorShape ==
    <<BlockProperty("facing", <<"north", "south", "west", "east">>),
      BlockProperty("half", <<"upper", "lower">>),
      BlockProperty("hinge", <<"left", "right">>),
      BlockProperty("open", <<"true", "false">>),
      BlockProperty("powered", <<"true", "false">>)>>

\* a catalog of two doors
DoorCatalog ==
    Catalog([i \in 1..2 |->
                [properties |-> DoorShape,
                 attrs |-> [k \in 1..StateCount(DoorShape) |-> BaseAttributes]]])

\* the enums, the property sets and the blocks generated for the doors
DoorGen ==
    [properties |-> build_properties(DoorCatalog),
     shared_props |-> build_shared_props(DoorCatalog),
     optimized_blocks |-> DoorCatalog]

OAK_DOOR == DoorGen.optimized_blocks[1]
IRON_DOOR == DoorGen.optimized_blocks[2]

\* DoorBlockProps: the field types and names generated for the doors
DoorTypes == TypesOf(DoorGen, OAK_DOOR.name)
DoorNames == field_names(EntriesOf(DoorGen, OAK_DOOR.name))

\* door_props.<name>, and door_props with <name> set
door_field(door_props, name) == door_props[Position(DoorNames, name)]
with_field(door_props, name, value) ==
    [door_props EXCEPT ![Position(DoorNames, name)] = value]

\* flip answering True for both values
Boolean_flip_to_true(value) == "true"

\* Boolean::flip
Boolean_flip(value) == IF value = "true" THEN "false" ELSE "true"

Survival == "survival"
Creative == "creative"
Adventure == "adventure"
Spectator == "spectator"
GameModes == {Survival, Creative, Adventure, Spectator}

\* can_open_door refusing the iron door in every game mode
can_open_door_never_iron(block, gamemode) == block.id # IRON_DOOR.id

can_open_door(block, gamemode) ==
    IF block.id = IRON_DOOR.id /\ gamemode # Creative THEN FALSE ELSE TRUE

\* Block::from_state_id for each state id of the doors
DoorBlockOf ==
    [id \in 0..MaxStateId(DoorCatalog) |-> unwrap(Block_from_state_id(DoorGen, id))]

\* world.get_block_and_block_state(pos): the block owning the state id
get_block_and_block_state(w, pos) == [block |-> DoorBlockOf[w[pos]], state_id |-> w[pos]]

\* the direction of the other half
other_half(door_props) == IF door_field(door_props, "half") = "upper" THEN Down ELSE Up

LowerPos == Origin
UpperPos == up(Origin)

\* a door as placed: the upper half is the lower one with half = upper
DoorHalves(block, facing, hinge, open, powered) ==
    LET lower == [i \in 1..Len(DoorNames) |->
                    CASE DoorNames[i] = "facing" -> facing
                      [] DoorNames[i] = "half" -> "lower"
                      [] DoorNames[i] = "hinge" -> hinge
                      [] DoorNames[i] = "open" -> open
                      [] DoorNames[i] = "powered" -> powered]
    IN (LowerPos :> to_state_id(DoorTypes, lower, block))
        @@ (UpperPos :> to_state_id(DoorTypes, with_field(lower, "half", "upper"), block))

DoorWorlds ==
    {DoorHalves(block, f[1], f[2], open, f[3]) :
        block \in {OAK_DOOR, IRON_DOOR}, open \in {"true", "false"},
        f \in {<<"north", "left", "false">>, <<"east", "right", "true">>,
               <<"west", "right", "false">>, <<"south", "left", "true">>}}

DoorIdle == [pc |-> "idle"]

DoorInit(ds) ==
    /\ world \in DoorWorlds
    /\ drv = [d \in ds |-> DoorIdle]
    /\ ret = NoRet
    /\ registry = default_registry
    /\ pending = <<>>
    /\ stacks = <<>>
    /\ wire_gives_power = TRUE
    /\ blocks = <<>> /\ built = "no" /\ gen = <<>>

\* use_with_item and normal_use by a player of some game mode on a half of
\* the door: a return, or the call of toggle_door.  prev is the toggle that
\* returned just before this use, if one did.
Use(d, op, refused) ==
    /\ drv[d].pc = "idle"
    /\ \E location \in DOMAIN world, gamemode \in GameModes :
         LET block == get_block_and_block_state(world, location).block
             can_open == can_open_door(block, gamemode)
         IN /\ ret' = [op |-> op, driver |-> d, pos |-> location, block |-> block.id,
                       gamemode |-> gamemode, can_open |-> can_open,
                       result |-> IF can_open THEN "toggles" ELSE refused,
                       prev |-> IF ret.op = "toggle_door"
                                THEN Some([pos |-> ret.pos, before |-> ret.before])
                                ELSE None]
            /\ drv' = [drv EXCEPT ![d] =
                          IF can_open
                          THEN [pc |-> "toggle_door", block_pos |-> location, start |-> world]
                          ELSE @]
    /\ UNCHANGED <<stacks, pending, registry, blocks, built, gen, world, wire_gives_power>>

UseWithItem == \E d \in DOMAIN drv : Use(d, "use_with_item", "continue")

NormalUse == \E d \in DOMAIN drv : Use(d, "normal_use", "return")

\* toggle_door up to its first await: the toggled half is read, open is
\* flipped, the position of the other half is taken from half
ToggleRead ==
    \E d \in DOMAIN drv :
        /\ drv[d].pc = "toggle_door"
        /\ LET own == get_block_and_block_state(world, drv[d].block_pos)
               door_props == unwrap(from_state_id(DoorTypes, own.state_id, own.block))
               flipped == with_field(door_props, "open",
                                     Boolean_flip(door_field(door_props, "open")))
           IN drv' = [drv EXCEPT ![d] =
                        [pc |-> "read_other", block_pos |-> @.block_pos, start |-> @.start,
                         block |-> own.block.name, door_props |-> flipped,
                         other_pos |-> offset(@.block_pos,
                                              to_offset(other_half(flipped)))]]
        /\ UNCHANGED <<stacks, pending, registry, blocks, built, gen, ret, world, wire_gives_power>>

\* the other half is read and given the open value of the toggled one
ToggleReadOther ==
    \E d \in DOMAIN drv :
        /\ drv[d].pc = "read_other"
        /\ LET other == get_block_and_block_state(world, drv[d].other_pos)
               other_door_props ==
                   unwrap(from_state_id(DoorTypes, other.state_id, other.block))
           IN drv' = [drv EXCEPT ![d] =
                        [pc |-> "set_own", block_pos |-> @.block_pos, start |-> @.start,
                         block |-> @.block, door_props |-> @.door_props,
                         other_pos |-> @.other_pos, other_block |-> other.block.name,
                         other_door_props |->
                            with_field(other_door_props, "open",
                                       door_field(@.door_props, "open"))]]
        /\ UNCHANGED <<stacks, pending, registry, blocks, built, gen, ret, world, wire_gives_power>>

\* world.set_block_state(block_pos, door_props.to_state_id(&block))
ToggleSetOwn ==
    \E d \in DOMAIN drv :
        /\ drv[d].pc = "set_own"
        /\ world' = set_block_state(world, drv[d].block_pos,
                        to_state_id(DoorTypes, drv[d].door_props,
                                    unwrap(Block_from_registry_key(DoorGen, drv[d].block))))
        /\ drv' = [drv EXCEPT ![d].pc = "set_other"]
        /\ UNCHANGED <<stacks, pending, registry, blocks, built, gen, ret, wire_gives_power>>

\* world.set_block_state(&other_pos, other_door_props.to_state_id(&other_block)),
\* and the call returns
ToggleSetOther ==
    \E d \in DOMAIN drv :
        /\ drv[d].pc = "set_other"
        /\ world' = set_block_state(world, drv[d].other_pos,
                        to_state_id(DoorTypes, drv[d].other_door_props,
                                    unwrap(Block_from_registry_key(DoorGen,
                                                                   drv[d].other_block))))
        /\ ret' = [op |-> "toggle_door", driver |-> d, pos |-> drv[d].block_pos,
                   other_pos |-> drv[d].other_pos, before |-> drv[d].start,
                   prev |-> IF ret.op \in {"use_with_item", "normal_use"} /\ ret.driver = d
                            THEN ret.prev ELSE None]
        /\ drv' = [drv EXCEPT ![d] = DoorIdle]
        /\ UNCHANGED <<stacks, pending, registry, blocks, built, gen, wire_gives_power>>

DoorNext ==
    \/ UseWithItem \/ NormalUse
    \/ ToggleRead \/ ToggleReadOther \/ ToggleSetOwn \/ ToggleSetOther

----------------------------------------------------------------------------
(* Item stacks, split_stack and the insertion into a slot.  Counts are u8. *)

U8 == 256

ItemStack(item, item_count) == [item |-> item, item_count |-> item_count]

\* ItemStack::EMPTY, is_empty, get_max_stack_size
EMPTY == ItemStack("air", 0)
is_empty(stack) == stack.item = "air" \/ stack.item_count = 0
get_max_stack_size(stack) ==
    CASE stack.item = "dirt" -> 64
      [] stack.item = "ender_pearl" -> 16
      [] OTHER -> 64

\* stack.split(amount): what is taken, and what is left of the stack
ItemStack_split(stack, amount) ==
    LET taken == IF amount <= stack.item_count THEN amount ELSE stack.item_count
    IN [taken |-> ItemStack(stack.item, taken),
        left |-> ItemStack(stack.item, stack.item_count - taken)]

are_items_and_components_equal(a, b) == a.item = b.item

\* stacks[slot] for a usize slot: the slices start at 0
at(stks, slot) == stks[slot + 1]
put(stks, slot, stack) == [stks EXCEPT ![slot + 1] = stack]

\* split_stack: the stacks afterwards and the stack returned
split_stack(stks, slot, amount) ==
    IF slot = 0 /\ slot < Len(stks) /\ ~is_empty(at(stks, slot)) /\ amount > 0
    THEN [stacks |-> put(stks, slot, ItemStack_split(at(stks, slot), amount).left),
          result |-> ItemStack_split(at(stks, slot), amount).taken]
    ELSE [stacks |-> stks, result |-> EMPTY]

\* a - b on u8: a panic with overflow checks, the wrapped value without
sub_u8(a, b, overflow_checks) ==
    [panic |-> a < b /\ overflow_checks, value |-> (a - b) % U8]

Min(a, b) == IF a <= b THEN a ELSE b

\* Slot::get_max_item_count_for_stack, max_count being
\* I::get_max_count_per_stack()
get_max_item_count_for_stack(max_count, stack) == Min(max_count, get_max_stack_size(stack))

\* Slot::insert_stack_count on the slot of index `index` of stks: whether
\* it panicked, the stacks afterwards and the stack returned
insert_stack_count(stks, index, stack, count, max_count, can_insert, overflow_checks) ==
    IF ~is_empty(stack) /\ can_insert
    THEN LET stack_self == at(stks, index)
             room == sub_u8(get_max_item_count_for_stack(max_count, stack),
                            stack_self.item_count, overflow_checks)
             min_count == Min(Min(count, stack.item_count), room.value)
         IN IF room.panic THEN [panic |-> TRUE, stacks |-> stks, result |-> stack]
            ELSE IF min_count <= 0 THEN [panic |-> FALSE, stacks |-> stks, result |-> stack]
            ELSE IF is_empty(stack_self)
            THEN [panic |-> FALSE,
                  stacks |-> put(stks, index, ItemStack_split(stack, min_count).taken),
                  result |-> ItemStack_split(stack, min_count).left]
            ELSE IF are_items_and_components_equal(stack, stack_self)
            THEN [panic |-> FALSE,
                  stacks |-> put(stks, index,
                                 ItemStack(stack_self.item,
                                           (stack_self.item_count + min_count) % U8)),
                  result |-> ItemStack(stack.item, stack.item_count - min_count)]
            ELSE [panic |-> FALSE, stacks |-> stks, result |-> stack]
    ELSE [panic |-> FALSE, stacks |-> stks, result |-> stack]

\* the stacks a slot may hold or be offered
StackPool ==
    {EMPTY, ItemStack("dirt", 1), ItemStack("dirt", 60), ItemStack("dirt", 64),
     ItemStack("ender_pearl", 3), ItemStack("ender_pearl", 16)}

Amounts == {0, 1, 5, 64, 200}

InventoryInit ==
    /\ stacks \in [1..2 -> StackPool]
    /\ ret = NoRet
    /\ world = WorldOf(<<>>)
    /\ registry = default_registry
    /\ pending = <<>>
    /\ wire_gives_power = TRUE
    /\ drv = IdleDrivers({})
    /\ blocks = <<>> /\ built = "no" /\ gen = <<>>

\* split_stack(&mut stacks, slot, amount), slot up to one past the end
SplitStack ==
    /\ ret = NoRet
    /\ \E slot \in 0..Len(stacks), amount \in Amounts :
         \E split \in {split_stack(stacks, slot, amount)} :
            /\ stacks' = split.stacks
            /\ ret' = [op |-> "split_stack", slot |-> slot, amount |-> amount,
                       before |-> stacks, result |-> split.result]
    /\ UNCHANGED <<pending, registry, blocks, built, gen, world, wire_gives_power, drv>>

\* a call of insert_stack_count on the stacks; a panic leaves no result
Inserted(op, index, stack, count, max_count, can_insert, overflow_checks) ==
    \E inserted \in {insert_stack_count(stacks, index, stack, count, max_count,
                                         can_insert, overflow_checks)} :
        /\ stacks' = inserted.stacks
        /\ ret' = [op |-> op, index |-> index, stack |-> stack, count |-> count,
                   max |-> get_max_item_count_for_stack(max_count, stack),
                   can_insert |-> can_insert, before |-> stacks,
                   panic |-> inserted.panic, result |-> inserted.result]

\* slot.insert_stack_count(stack, count) on a slot of an inventory of at
\* most 64 items per stack, built with or without overflow checks
InsertStackCount ==
    /\ ret = NoRet
    /\ \E index \in 0..(Len(stacks) - 1), stack \in StackPool, count \in Amounts,
          can_insert \in BOOLEAN, overflow_checks \in BOOLEAN :
         Inserted("insert_stack_count", index, stack, count, 64, can_insert, overflow_checks)
    /\ UNCHANGED <<pending, registry, blocks, built, gen, world, wire_gives_power, drv>>

\* slot.insert_stack(stack): insert_stack_count(stack, stack.item_count)
InsertStack ==
    /\ ret = NoRet
    /\ \E index \in 0..(Len(stacks) - 1), stack \in StackPool,
          can_insert \in BOOLEAN, overflow_checks \in BOOLEAN :
         Inserted("insert_stack", index, stack, stack.item_count, 64, can_insert,
                  overflow_checks)
    /\ UNCHANGED <<pending, registry, blocks, built, gen, world, wire_gives_power, drv>>

InventoryNext == SplitStack \/ InsertStackCount \/ InsertStack

----------------------------------------------------------------------------
(* Specifications.                                                         *)

IdleWorld ==
    /\ world = WorldOf(<<>>)
    /\ registry = default_registry
    /\ pending = <<>>
    /\ stacks = <<>>
    /\ wire_gives_power = TRUE
    /\ drv = IdleDrivers({})

ShapeInit == RegInit(ShapeCatalogs) /\ IdleWorld

AttributeInit == RegInit(AttributeCatalogs) /\ IdleWorld

LookupInit == RegInit(LookupCatalogs) /\ IdleWorld

\* the build on catalogs of varying property lists, and the codec queries
Spec == ShapeInit /\ [][RegNext]_vars

\* the build on catalogs of varying state attributes
SpecStates == AttributeInit /\ [][RegNext]_vars

\* the build on catalogs of varying defaults and items, and the lookups
SpecLookup == LookupInit /\ [][LookupNext]_vars

SpecView == ViewInit /\ [][ViewNext]_vars

\* several drivers calling the wire behaviour
GuardManyInit == GuardInit(1..NumDrivers)

GuardOneInit == GuardInit({1})

SpecGuard == GuardManyInit /\ [][GuardNext]_vars

\* one driver; a started call is run to its end
SpecSingle ==
    /\ GuardOneInit
    /\ [][GuardNext]_vars
    /\ WF_vars(QuerySome \/ RestoreSome)

SpecWire == WireInit /\ [][WireNext]_vars

\* connection and power queries of one wire among varying neighbours
SpecShape == ShapeWorldInit /\ [][ShapeNext]_vars

\* shape updates of one wire among varying neighbours
SpecUpdate == UpdateInit /\ [][UpdateNext]_vars
\* worlds of the neighbour updates, the wire at Origin with no connection
\* to the south and with each of two powers
PowerWorlds ==
    {[w EXCEPT ![Origin] = [@ EXCEPT !.power = p]] :
        w \in {u \in UpdateWorlds : u[Origin].south = "none" /\ u[Origin].west # "up"},
        p \in {0, 15}}

PowerInit ==
    /\ world \in PowerWorlds
    /\ registry = default_registry
    /\ pending = <<>>
    /\ stacks = <<>>
    /\ wire_gives_power = TRUE
    /\ drv = IdleDrivers({})
    /\ ret = NoRet
    /\ blocks = <<>> /\ built = "no" /\ gen = <<>>

PowerNext == GetStateForNeighborUpdate \/ GetPlacementState

\* recomputations of the shape of wires of several powers
SpecPower == PowerInit /\ [][PowerNext]_vars

DoorManyInit == DoorInit(1..NumDrivers)

DoorOneInit == DoorInit({1})

\* players using the two halves of a door at the same time
SpecDoor == DoorManyInit /\ [][DoorNext]_vars

\* one player using a door
SpecDoorSingle == DoorOneInit /\ [][DoorNext]_vars

\* one call on the stacks of an inventory
SpecInventory == InventoryInit /\ [][InventoryNext]_vars

SpecCascade == CascadeInit /\ [][CascadeNext]_vars
\* a call that was made runs: each callback runs to completion
SpecCascadeFair == SpecCascade /\ WF_vars(CascadeStep)

----------------------------------------------------------------------------
(* Properties of the build and of the generated codecs.                    *)

\* C1: for every generated property set, from_index(to_index(a)) = a for
\* every assignment a, and to_index is one-to-one from the assignments onto
\* 0 .. (product of the variant counts) - 1: it has from_index as a left
\* inverse, lands below the product, and every index below the product is
\* the to_index of the assignment from_index decodes it to.
C1_IndexRoundTrip ==
    /\ ret.op = "to_index" =>
          /\ ret.back = ret.a
          /\ ret.index \in 0..(Cardinalities(ret.types) - 1)
    /\ ret.op = "from_index" =>
          /\ ret.a \in Assignments(ret.types)
          /\ ret.back = ret.index

\* a two-field set encoded to its highest index, 5 = 1 + 2 * 2
C1_Witness ==
    /\ ret.op = "to_index"
    /\ Len(ret.types) = 2
    /\ ret.index = 5
    /\ ret.back = ret.a

\* the state ids a block lists: from its first state to its last
OwnedRange(block) == block.states[1].id..block.states[Len(block.states)].id

\* C2: from_state_id(to_state_id(a, block), block) = Some(a) for every
\* assignment a of the block's property set; a state id of the block's owned
\* range decodes to an assignment whose to_state_id is that id; a state id
\* outside the range decodes to None.
C2_StateIdRoundTrip ==
    /\ ret.op = "to_state_id" => ret.back = Some(ret.a)
    /\ ret.op = "from_state_id" =>
          IF ret.state_id \in OwnedRange(blocks[ret.block])
          THEN ret.a # None /\ ret.back = Some(ret.state_id)
          ELSE ret.a = None

\* two properties of the catalog get the same enum name, which is not the
\* name of a shared kind, and have different sets of variants
NameCollision(bs) ==
    \E i \in 1..Len(AllProps(bs)), j \in 1..Len(AllProps(bs)) :
        LET p == AllProps(bs)[i]
            q == AllProps(bs)[j]
        IN /\ get_enum_name(p.values, p.name) = get_enum_name(q.values, q.name)
           /\ ~IsRemapName(get_enum_name(p.values, p.name))
           /\ Range(p.values) # Range(q.values)

\* C3: the build aborts whenever two properties, anywhere in the block list
\* and in any order, get the same non-shared enum name with different
\* variant sets.
C3_CollisionAborts == (built # "no" /\ NameCollision(blocks)) => built = "panic"

\* C4: for every block and every property of it, the generated (possibly
\* shared, first-seen) enum gives each variant the index of its position in
\* the block's own value list, and has as many variants as that list.
C4_SharedTypeDecodesAsDeclared ==
    built = "yes" =>
        \A b \in 1..Len(blocks) : \A i \in 1..Len(blocks[b].properties) :
            LET p == blocks[b].properties[i]
                t == PropertyStruct(gen.properties, get_enum_name(p.values, p.name))
            IN /\ variant_count(t) = Len(p.values)
               /\ \A k \in 1..Len(p.values) : enum_to_index(t, p.values[k]) = k - 1

\* C5: get_state returns, for every state of the catalog, the attributes
\* the catalog declares for that state.
C5_GetStateAsDeclared ==
    ret.op = "get_state" => ret.state = blocks[ret.block].states[ret.k]

----------------------------------------------------------------------------
(* Properties of the power queries and of the wire.                        *)

\* the strong power the blocks around block_pos emit toward it: in each
\* direction, that of the neighbour in that direction
RECURSIVE NeighbourStrongMax(_, _, _, _)
NeighbourStrongMax(flag, w, block_pos, i) ==
    IF i > Len(all) THEN 0
    ELSE Max(get_strong_redstone_power(flag, w, offset(block_pos, to_offset(all[i])), all[i]),
             NeighbourStrongMax(flag, w, block_pos, i + 1))

\* C6: the strong power received at p is the maximum over the six
\* directions d of the strong power of the block at p+d (not of the block
\* at p), and no direction is queried once the maximum has reached 15.
C6_ReceivedStrongFromNeighbours ==
    ret.op = "get_received_strong_redstone_power" =>
        /\ ret.result.power = NeighbourStrongMax(wire_gives_power, world, ret.pos, 1)
        /\ ret.result.power < 15 => ret.result.asked = Len(all)

\* C7: a query of a get_strong_power call in progress never finds the
\* gives-power flag true, however the calls of several drivers interleave.
C7_FlagNeverSeenTrue == \A d \in DOMAIN drv : Busy(d) => ~drv[d].saw

\* C8: while get_strong_power runs for wires at other positions only, and
\* for other drivers, the powers a driver reads from the wire at q are those
\* it reads when no call is in progress (the flag being set).
C8_OtherPositionUnaffected ==
    (ret.op = "wire_query" /\ ret.busy # {} /\ ret.pos \notin ret.busy) =>
        LET state == get_block_state(world, ret.pos)
        IN /\ ret.emits = emits_redstone_power(TRUE, state)
           /\ ret.weak = wire_get_weak_redstone_power(TRUE, world, ret.pos, state,
                                                      ret.direction)
           /\ ret.strong = wire_get_strong_redstone_power(TRUE, world, ret.pos, state,
                                                          ret.direction)

\* C9: with one driver, the flag is false from the start of the query of
\* get_strong_power to its end and no query finds it true, the flag is true
\* when get_strong_power has returned, and a started call leads to the flag
\* being true.
C9_FlagClearedThenRestored ==
    /\ [](\A d \in DOMAIN drv : Busy(d) => (~wire_gives_power /\ ~drv[d].saw))
    /\ [](\A d \in DOMAIN drv : drv[d].pc = "done" => wire_gives_power)
    /\ \A d \in {1} : (drv[d].pc = "query") ~> (drv[d].pc = "done" /\ wire_gives_power)

\* the one driver's call for a wire next to a powered lever has returned
\* 15 and left the flag set
C9_Witness ==
    /\ DOMAIN drv = {1}
    /\ drv[1].pc = "done"
    /\ ~drv[1].saw
    /\ wire_gives_power
    /\ ret.op = "get_strong_power"
    /\ ret.power = 15

\* a floor a wire can run on top of: an ordinary opaque block or a trapdoor
FloorQualifies(floor) == is_solid(floor) \/ is_trapdoor(floor)

\* C10: a neighbour update of a wire sets its position to air when the
\* block beneath does not qualify as a floor, and leaves a wire there when
\* it does.
C10_WireRemovedWithoutFloor ==
    ret.op = "on_neighbor_update" =>
        IF FloorQualifies(ret.floor)
        THEN get_block_state(world, ret.pos).block = REDSTONE_WIRE
        ELSE get_block_state(world, ret.pos) = AirState

\* C11: get_state_for_neighbor_update applied again to the state it
\* returned, for the same source face and with no other position changed,
\* returns that state id again, for every source face and wire state.
C11_NeighborUpdateFixpoint ==
    (ret.op = "get_state_for_neighbor_update" /\ ret.again) => ret.result = ret.state_id

\* a call from a side changed the state (north, forced to side, aside) and
\* the same call on the result was made
C11_Witness ==
    /\ ret.op = "get_state_for_neighbor_update"
    /\ ret.again
    /\ ret.changed_before
    /\ ret.source_face = East
    /\ ret.result = ret.state_id

\* the connection toward source_face of the wire at ret.pos, resolved from
\* the neighbours
ResolvedTier ==
    get_render_connection_type(wire_gives_power, world, ret.pos, ret.source_face,
                               ~is_solid(get_block_state(world, up(ret.pos))))

\* the state the call was made on, and the state of the id it returned
StateBefore == wire_from_state_id(ret.state_id)
StateAfter == state_of_id(ret.result)

\* C18: get_state_for_neighbor_update from Down returns the air state when
\* the floor does not qualify and the unchanged state id otherwise; from Up
\* the full placement re-derivation of the current state; from a horizontal
\* side the state with only that side's tier changed to the resolved one
\* when the resolved tier has the connectedness of the stored one and the
\* wire is not fully connected, and otherwise a full placement
\* re-derivation that keeps the power.
C18_NeighborUpdateBranches ==
    ret.op = "get_state_for_neighbor_update" =>
        CASE ret.source_face = Down ->
                ret.result = IF FloorQualifies(get_block_state(world, down(ret.pos)))
                             THEN ret.state_id ELSE AIR_default_state_id
          [] ret.source_face = Up ->
                StateAfter = get_placement_state(wire_gives_power, world, ret.pos, StateBefore)
          [] OTHER ->
                IF /\ is_connected(ResolvedTier)
                        = is_connected(get_connection_type(StateBefore, ret.source_face))
                   /\ ~is_fully_connected(StateBefore)
                THEN /\ get_connection_type(StateAfter, ret.source_face) = ResolvedTier
                     /\ \A d \in Range(horizontal) \ {ret.source_face} :
                            get_connection_type(StateAfter, d)
                                = get_connection_type(StateBefore, d)
                     /\ StateAfter.power = StateBefore.power
                ELSE /\ StateAfter.power = StateBefore.power
                     /\ \E seed \in AllWires(StateBefore.power) :
                            StateAfter = get_placement_state(wire_gives_power, world,
                                                             ret.pos, seed)

----------------------------------------------------------------------------
(* Properties of the connections and of the power of a wire.               *)

\* the facing of the component is the direction or its opposite
AlongFacing(state, direction) ==
    direction # NoDirection
    /\ (state.facing = direction \/ state.facing = opposite(direction))

\* what connects_to answers for the blocks that are neither repeater nor
\* observer
ConnectsOther(state, direction) ==
    CASE state.block = REDSTONE_WIRE -> TRUE
      [] has_pumpkin_block(state) ->
            emits_redstone_power(wire_gives_power, state) /\ direction # NoDirection
      [] OTHER -> FALSE

\* C14 as stated: connects_to is true for every wire state; for a repeater
\* and for an observer exactly when a direction is supplied and equals or
\* is opposite to the facing; for another block with a registered behaviour
\* exactly when it emits power and a direction is supplied; else false.
C14_ConnectsToAsStated ==
    ret.op = "connects_to" =>
        ret.result = IF ret.state.block \in {REPEATER, OBSERVER}
                     THEN AlongFacing(ret.state, ret.direction)
                     ELSE ConnectsOther(ret.state, ret.direction)

\* C14 amended: as stated, except that an observer connects exactly when a
\* direction is supplied and equals the observer's facing.
C14_ConnectsTo ==
    ret.op = "connects_to" =>
        ret.result = CASE ret.state.block = REPEATER ->
                            AlongFacing(ret.state, ret.direction)
                       [] ret.state.block = OBSERVER ->
                            ret.direction # NoDirection /\ ret.state.facing = ret.direction
                       [] OTHER -> ConnectsOther(ret.state, ret.direction)

\* an observer asked in the direction opposite to its facing does not connect
C14_Witness ==
    /\ ret.op = "connects_to"
    /\ ret.state.block = OBSERVER
    /\ ret.direction = opposite(ret.state.facing)
    /\ ~ret.result

\* connects_to(state, None) and connects_to(state, Some(direction))
ConnectsAt(pos, direction) ==
    connects_to(wire_gives_power, get_block_state(world, pos), direction)

\* C15: get_render_connection_type for a horizontal direction d is Up when
\* the space above the wire is non-solid, the neighbour at d can be run on
\* top of (an opaque floor or a trapdoor), the block above the neighbour
\* connects and the neighbour is solid; Side under the same conditions with
\* a non-solid neighbour; otherwise None when the neighbour does not
\* connect in direction d and is solid or has no connecting block below;
\* otherwise Side.  A wire adjacent in direction d is never None.
C15_RenderConnectionType ==
    ret.op = "get_render_connection_type" =>
        LET other == offset(ret.pos, to_offset(ret.direction))
            neighbour == get_block_state(world, other)
        IN /\ ret.result =
                IF /\ ret.not_solid
                   /\ FloorQualifies(neighbour)
                   /\ ConnectsAt(up(other), NoDirection)
                THEN IF is_solid(neighbour) THEN "up" ELSE "side"
                ELSE IF /\ ~ConnectsAt(other, ret.direction)
                        /\ (is_solid(neighbour) \/ ~ConnectsAt(down(other), NoDirection))
                THEN "none"
                ELSE "side"
           /\ neighbour.block = REDSTONE_WIRE => ret.result # "none"

\* no block around the wire at pos connects: not the horizontal neighbours,
\* nor the blocks above and below them
NothingConnectable(pos) ==
    \A d \in Range(horizontal) :
        LET other == offset(pos, to_offset(d))
        IN /\ ~ConnectsAt(other, d)
           /\ ~ConnectsAt(up(other), NoDirection)
           /\ ~ConnectsAt(down(other), NoDirection)

\* C16: on_place at a position with a non-solid block above and nothing
\* connectable around yields the wire with all four sides Side and power 0.
C16_PlacedAloneIsCross ==
    (/\ ret.op = "on_place"
     /\ ~is_solid(get_block_state(world, up(ret.pos)))
     /\ NothingConnectable(ret.pos))
        => ret.result = wire_to_state_id(Wire(0, "side", "side", "side", "side"))

\* a wire placed alone, beside a stone block, under open air
C16_Witness ==
    /\ ret.op = "on_place"
    /\ ~is_solid(get_block_state(world, up(ret.pos)))
    /\ NothingConnectable(ret.pos)
    /\ get_block_state(world, offset(ret.pos, to_offset(East))) = Stone
    /\ wire_from_state_id(ret.result) = DOT_STATE

\* the connection toward d of the wire at pos, resolved from the neighbours
Resolved(pos, d) ==
    get_render_connection_type(wire_gives_power, world, pos, d,
                               ~is_solid(get_block_state(world, up(pos))))

NoneResolved(pos, ds) == \A d \in ds : ~is_connected(Resolved(pos, d))

\* the two directions across the axis of d
Across(d) == IF d \in {North, South} THEN {East, West} ELSE {North, South}

\* C17: get_placement_state(old) resolves the four directions from the
\* neighbours; when old had no connection and the resolved state has none,
\* it returns the resolved state; otherwise a side resolved unconnected
\* becomes Side when neither of the two sides across it resolved connected
\* (all tests on the resolved connections), and a side resolved connected
\* keeps its tier.  The power is that of old.
C17_PlacementState ==
    ret.op = "get_placement_state" =>
        /\ ret.result.power = ret.old_props.power
        /\ \A d \in Range(horizontal) :
             get_connection_type(ret.result, d) =
                IF /\ is_not_connected(ret.old_props)
                   /\ NoneResolved(ret.pos, Range(horizontal))
                THEN "none"
                ELSE IF is_connected(Resolved(ret.pos, d)) THEN Resolved(ret.pos, d)
                ELSE IF NoneResolved(ret.pos, Across(d)) THEN "side"
                ELSE "none"

\* an unconnected wire that gains a neighbour to the north only: south is
\* forced to Side, east and west stay None
C17_Witness ==
    /\ ret.op = "get_placement_state"
    /\ is_not_connected(ret.old_props)
    /\ ret.result.north = "side" /\ ret.result.south = "side"
    /\ ret.result.east = "none" /\ ret.result.west = "none"
    /\ ~is_connected(Resolved(ret.pos, South))

\* the wire the power query was made on, and its placement state
PowerWire == get_block_state(world, ret.pos)
PowerPlacement == get_placement_state(wire_gives_power, world, ret.pos, PowerWire)

\* C19 as stated: for a horizontal direction d, a wire with the flag set
\* and stored power p > 0 returns p as weak and strong power when its
\* placement state's connection toward d is not None, and 0 otherwise.
C19_PowerNeedsTierOfDirection ==
    (/\ ret.op = "wire_power" /\ ret.direction \in Range(horizontal)
     /\ wire_gives_power /\ PowerWire.power > 0)
        => LET p == IF is_connected(get_connection_type(PowerPlacement, ret.direction))
                    THEN PowerWire.power ELSE 0
           IN ret.weak = p /\ ret.strong = p

\* C19 amended: the connection tested is the one toward the direction
\* opposite to d.
C19_PowerNeedsTierOfOpposite ==
    (/\ ret.op = "wire_power" /\ ret.direction \in Range(horizontal)
     /\ wire_gives_power /\ PowerWire.power > 0)
        => LET p == IF is_connected(get_connection_type(PowerPlacement,
                                                        opposite(ret.direction)))
                    THEN PowerWire.power ELSE 0
           IN ret.weak = p /\ ret.strong = p

\* a wire connected north and east only, asked toward the south, answers
\* its power
C19_Witness ==
    /\ ret.op = "wire_power" /\ ret.direction = South
    /\ wire_gives_power /\ PowerWire.power > 0
    /\ is_connected(PowerPlacement.north) /\ ~is_connected(PowerPlacement.south)
    /\ ret.weak = PowerWire.power /\ ret.strong = PowerWire.power

\* C20: the weak and the strong power of a wire are 0 when the flag is
\* clear, when the direction is Down and when the stored power is 0; with
\* the flag set and direction Up the weak power is the stored power; with
\* the flag set the strong power is the weak power.
C20_WirePowerGates ==
    ret.op = "wire_power" =>
        /\ (~wire_gives_power \/ ret.direction = Down \/ PowerWire.power = 0)
                => (ret.weak = 0 /\ ret.strong = 0)
        /\ (wire_gives_power /\ ret.direction = Up) => ret.weak = PowerWire.power
        /\ wire_gives_power => ret.strong = ret.weak

\* a powered wire asked with the flag clear answers 0
C20_Witness ==
    /\ ret.op = "wire_power"
    /\ ~wire_gives_power
    /\ PowerWire.power = 9
    /\ ret.direction = Up
    /\ ret.weak = 0 /\ ret.strong = 0

----------------------------------------------------------------------------
(* Properties of the cascades of neighbour updates.                        *)

\* C12: a placement step or a neighbour update that leaves the state of
\* the wire as it was issues no further neighbour update.
C12_UnchangedIssuesNothing ==
    (/\ ret.op \in {"placed", "on_neighbor_update"}
     /\ ret.before = ret.after)
        => ret.issued = <<>>

PendingBelowBound == Len(pending) < MaxPending

----------------------------------------------------------------------------
(* Properties of the emitted and of the received power.                    *)

\* the weak power the behaviour of the block at pos reports, 0 with none
WeakAt(pos, direction) ==
    behaviour_weak_power(wire_gives_power, world, pos, get_block_state(world, pos), direction)

EmittedAround(pos, i) ==
    get_emitted_redstone_power(wire_gives_power, world, offset(pos, to_offset(all[i])), all[i])

\* the greatest power emitted by the neighbours in the first n directions
MaxAround(pos, n) ==
    LET powers == {EmittedAround(pos, i) : i \in 1..n} \cup {0}
    IN CHOOSE m \in powers : \A x \in powers : m >= x

\* C22: the received power at p is the maximum over the six directions d of
\* the power emitted at p+d for direction d; no direction is asked once the
\* maximum has reached 15, and the result lies in 0..15.
C22_ReceivedPower ==
    ret.op = "get_received_redstone_power" =>
        /\ ret.result.power = MaxAround(ret.pos, Len(all))
        /\ ret.result.power \in 0..15
        /\ ret.result.asked \in 1..Len(all)
        /\ ret.result.asked < Len(all) => MaxAround(ret.pos, ret.result.asked) >= 15
        /\ \A n \in 1..(ret.result.asked - 1) : MaxAround(ret.pos, n) < 15

\* the block above gives 15 and the four sides are not asked
C22_Witness ==
    /\ ret.op = "get_received_redstone_power"
    /\ ret.result.power = 15
    /\ ret.result.asked = 2
    /\ EmittedAround(ret.pos, 1) = 0

\* C23: with only_from_gate = false the gated query gives 15 for a redstone
\* block in every direction; for a wire the power stored in its state,
\* whatever the direction, the connections and the gives-power flag; for
\* another block its strong power when its behaviour emits redstone power,
\* and 0 otherwise.
C23_EmittedWithGate ==
    (ret.op = "get_emitted_redstone_power_with_gate" /\ ~ret.only_from_gate) =>
        LET state == get_block_state(world, ret.pos)
        IN ret.result =
            CASE state.block = REDSTONE_BLOCK -> 15
              [] state.block = REDSTONE_WIRE -> state.power
              [] OTHER ->
                   IF /\ has_pumpkin_block(state)
                      /\ emits_redstone_power(wire_gives_power, state)
                   THEN behaviour_strong_power(wire_gives_power, world, ret.pos, state,
                                               ret.direction)
                   ELSE 0

\* a wire with no registered behaviour, the flag clear, asked downward,
\* answers its stored power
C23_Witness ==
    /\ ret.op = "get_emitted_redstone_power_with_gate" /\ ~ret.only_from_gate
    /\ get_block_state(world, ret.pos).block = REDSTONE_WIRE
    /\ ~wire_gives_power /\ REDSTONE_WIRE \notin registry
    /\ ret.direction = Down
    /\ ret.result = 7

\* the calls from the n-th on of the stack after the step
Rest(n) == SubSeq(pending', n, Len(pending'))

\* World::update_neighbors for pos and for its six neighbours
Notified(pos) ==
    <<Item("world_update_neighbors", pos)>>
        \o [i \in 1..Len(all) |->
                Item("world_update_neighbors", offset(pos, to_offset(all[i])))]

\* C24: update_offset_neighbors of a wire at p first goes to the four
\* positions horizontally beside p, then, for each of these, to the
\* position above it when the block there is solid and below it when not;
\* a position it goes to is notified, itself and its six neighbours, only
\* if it holds a redstone wire.
C24_OffsetNeighbors ==
    [][/\ (pending # <<>> /\ Top.call = "update_offset_neighbors") =>
            /\ \A i \in 1..4 :
                 /\ pending'[i] = Item("update_neighbors",
                                       offset(Top.pos, to_offset(horizontal[i])))
                 /\ pending'[4 + i].call = "update_neighbors_beside"
                 /\ pending'[4 + i].pos = offset(Top.pos, to_offset(horizontal[i]))
            /\ Rest(9) = Tail(pending)
       /\ (pending # <<>> /\ Top.call \in {"update_neighbors", "update_neighbors_beside"}) =>
            LET target == IF Top.call = "update_neighbors" THEN Top.pos
                          ELSE IF is_solid(get_block_state(world, Top.pos))
                          THEN offset(Top.pos, <<0, 1, 0>>)
                          ELSE offset(Top.pos, <<0, -1, 0>>)
            IN /\ ret'.pos = target
               /\ pending' = IF get_block_state(world, target).block = REDSTONE_WIRE
                             THEN Notified(target) \o Tail(pending)
                             ELSE Tail(pending)
      ]_vars

\* the wire on top of the stone block beside the placed wire is notified
C24_Witness ==
    /\ ret.op = "update_neighbors_beside"
    /\ ret.cause = "placed"
    /\ ret.pos = <<1, 1, 0>>
    /\ get_block_state(world, <<1, 0, 0>>) = Stone
    /\ Len(pending) >= 7
    /\ SubSeq(pending, 1, 7) = Notified(<<1, 1, 0>>)

----------------------------------------------------------------------------
(* Properties of the named values, of the property enums and of the        *)
(* lookups.                                                                *)

\* the properties the catalog declares for a block, in the generated order
Declared(block) == Reverse(block.properties)

\* the value the last pair of props naming name gives
LastGiven(props, name) ==
    props[CHOOSE i \in 1..Len(props) :
            /\ props[i][1] = name
            /\ \A j \in (i + 1)..Len(props) : props[j][1] # name][2]

\* every pair names a property of the block and gives one of its values
WellNamed(props, block) ==
    \A i \in 1..Len(props) :
        \E k \in 1..Len(block.properties) :
            /\ block.properties[k].name = props[i][1]
            /\ Contains(block.properties[k].values, props[i][2])

UnknownKey(props, block) ==
    \E i \in 1..Len(props) :
        \A k \in 1..Len(block.properties) : block.properties[k].name # props[i][1]

\* C25: from_props(list, block) is the default assignment of the block with
\* exactly the properties named in list set to the values given, the last
\* pair of a name winning, the others keeping their default; a name that is
\* not a property of the set is a fatal failure.
C25_FromProps ==
    ret.op = "from_props" =>
        LET block == blocks[ret.block]
        IN /\ UnknownKey(ret.props, block) => ret.result = PANIC
           /\ WellNamed(ret.props, block) =>
                /\ ret.result # PANIC
                /\ \A k \in 1..Len(Declared(block)) :
                     ret.result[k] =
                        IF \E i \in 1..Len(ret.props) :
                                ret.props[i][1] = Declared(block)[k].name
                        THEN LastGiven(ret.props, Declared(block)[k].name)
                        ELSE ret.default[k]

\* C26: for a generated property enum of n variants, to_index is one-to-one
\* from the variants onto 0..n-1, from_index(to_index(v)) = v and
\* from_value(to_value(v)) = v for every variant v, from_index(i) is a fatal
\* failure for i >= n and from_value(s) for a string s that is no variant
\* string.
C26_EnumVariants ==
    /\ ret.op = "enum_to_index" =>
          /\ ret.index \in 0..(Len(ret.enum.values) - 1)
          /\ ret.back = ret.v
          /\ \A w \in Range(ret.enum.values) \ {ret.v} :
                enum_to_index(ret.enum, w) # ret.index
    /\ ret.op = "enum_from_index" =>
          IF ret.index >= Len(ret.enum.values) THEN ret.result = PANIC
          ELSE /\ ret.result \in Range(ret.enum.values)
               /\ enum_to_index(ret.enum, ret.result) = ret.index
    /\ ret.op = "enum_to_value" => ret.back = ret.v
    /\ ret.op = "enum_from_value" =>
          (ret.value \notin Range(ret.enum.values) => ret.result = PANIC)

\* from_index of the number of variants of an enum of three variants
C26_Witness ==
    /\ ret.op = "enum_from_index"
    /\ Len(ret.enum.values) = 3
    /\ ret.index = 3
    /\ ret.result = PANIC

\* C27: default(block) does not fail for a block of the catalog that has a
\* property set: its default_state_id lies from the id of its first listed
\* state to the id of its last, and from_state_id decodes it.
C27_DefaultDecodes ==
    ret.op = "default" =>
        /\ blocks[ret.block].default_state_id \in OwnedRange(blocks[ret.block])
        /\ ret.result # PANIC

\* the default state of a block of several states is its last one
C27_Witness ==
    /\ ret.op = "default"
    /\ Len(blocks[ret.block].states) > 1
    /\ blocks[ret.block].default_state_id =
            blocks[ret.block].states[Len(blocks[ret.block].states)].id
    /\ ret.result # PANIC

\* the blocks whose range of state ids contains id
Owners(id) == {b \in 1..Len(blocks) : id \in OwnedRange(blocks[b])}

\* C28: Block::from_state_id(s) is the block whose range of state ids
\* contains s, and None when there is none; the ranges being disjoint there
\* is one such block at most, and it is the block for which
\* BlockProperties::from_state_id(s, block) succeeds.
C28_BlockFromStateId ==
    ret.op = "from_state_id_block" =>
        /\ Cardinality(Owners(ret.key)) <= 1
        /\ Owners(ret.key) = {} => ret.result = None
        /\ \A b \in Owners(ret.key) : ret.result = Some(gen.optimized_blocks[b])
        /\ \A b \in PropBlocks :
              (from_state_id(TypesOf(gen, gen.optimized_blocks[b].name), ret.key,
                             gen.optimized_blocks[b]) # None)
                 <=> ret.result = Some(gen.optimized_blocks[b])

\* a state id of the second block, which has a property set
C28_Witness ==
    /\ ret.op = "from_state_id_block"
    /\ Len(blocks) = 2
    /\ 2 \in PropBlocks
    /\ ret.key = blocks[2].states[Len(blocks[2].states)].id
    /\ ret.result = Some(gen.optimized_blocks[2])

\* C29: Block::from_item_id(i) is the first block, in the order of the
\* catalog, whose item id is i, and None when no block has item id i.
C29_BlockFromItemId ==
    ret.op = "from_item_id" =>
        LET having == {b \in 1..Len(blocks) : blocks[b].item_id = ret.key}
        IN IF having = {} THEN ret.result = None
           ELSE \E b \in having :
                    /\ \A c \in having : b <= c
                    /\ ret.result # None
                    /\ ret.result[1].name = blocks[b].name

\* two blocks have the item asked for
C29_Witness ==
    /\ ret.op = "from_item_id"
    /\ Len(blocks) = 2
    /\ blocks[1].item_id = ret.key /\ blocks[2].item_id = ret.key
    /\ ret.result = Some(gen.optimized_blocks[1])

\* C30: a lookup with an unknown key gives an absent result and is never a
\* fatal failure: from_registry_key, from_id, from_state_id and from_item_id
\* give None, and block.properties(state_id) gives None for a state id
\* outside the range of the block.
C30_UnknownKeyIsAbsent ==
    /\ (ret.op = "from_registry_key" /\ \A b \in 1..Len(blocks) : blocks[b].name # ret.key)
            => ret.result = None
    /\ (ret.op = "from_id" /\ \A b \in 1..Len(blocks) : blocks[b].id # ret.key)
            => ret.result = None
    /\ (ret.op = "from_state_id_block" /\ Owners(ret.key) = {}) => ret.result = None
    /\ (ret.op = "from_item_id" /\ \A b \in 1..Len(blocks) : blocks[b].item_id # ret.key)
            => ret.result = None
    /\ (ret.op = "properties" /\ ret.state_id \notin OwnedRange(blocks[ret.block]))
            => (ret.result # PANIC /\ ret.result = None)

\* C31: Block::properties and Block::from_properties return None exactly for
\* the blocks with no generated property set, which are exactly the blocks
\* declared with no property; such a block has one state id, its first and
\* its last.
C31_NoneWithoutProperties ==
    (built = "yes" /\ ret.op \in {"properties", "from_properties"}) =>
        LET declared == blocks[ret.block]
            block == gen.optimized_blocks[ret.block]
        IN /\ (ret.result # PANIC /\ ret.result = None) <=> ~HasProps(gen, block.name)
           /\ ~HasProps(gen, block.name) <=> declared.properties = <<>>
           /\ declared.properties = <<>> =>
                 /\ Len(block.states) = 1
                 /\ state_start(block) = block.states[1].id
                 /\ state_end(block) = block.states[1].id

C31_Witness ==
    /\ built = "yes" /\ ret.op = "properties" /\ ret.result # PANIC /\ ret.result = None
    /\ \E b \in 1..Len(blocks) : blocks[b].properties # <<>>

----------------------------------------------------------------------------
(* Properties of the digits of to_index.                                   *)

\* the blocks whose generated property set has the field types of ret
BlocksOfTypes ==
    {b \in PropBlocks : TypesOf(gen, gen.optimized_blocks[b].name) = ret.types}

\* the enum generated for the k-th declared property of a block
DeclaredType(b, k) ==
    PropertyStruct(gen.properties,
                   get_enum_name(blocks[b].properties[k].values, blocks[b].properties[k].name))

\* the weight of digit i: the product of the cardinalities before it
Weight(types, i) == Product([j \in 1..(i - 1) |-> Len(types[j].values)])

RECURSIVE MixedRadix(_, _, _)
MixedRadix(types, a, i) ==
    IF i = 0 THEN 0
    ELSE MixedRadix(types, a, i - 1) + enum_to_index(types[i], a[i]) * Weight(types, i)

\* C33: to_index is the sum of the index of each property times the product
\* of the cardinalities of the properties before it, over the properties in
\* the generated order, the reverse of the declared one (the last declared
\* property is the least significant digit); from_index decodes digit i as
\* (index div weight) mod cardinality in that order.
C33_MixedRadix ==
    (ret.op \in {"to_index", "from_index"}) =>
        /\ \A b \in BlocksOfTypes :
              LET n == Len(blocks[b].properties)
              IN /\ Len(ret.types) = n
                 /\ \A i \in 1..n : ret.types[i] = DeclaredType(b, n + 1 - i)
        /\ ret.op = "to_index" =>
              ret.index = MixedRadix(ret.types, ret.a, Len(ret.types))
        /\ ret.op = "from_index" =>
              \A i \in 1..Len(ret.types) :
                 ret.a[i] = ret.types[i].values[
                     ((ret.index \div Weight(ret.types, i)) % Len(ret.types[i].values)) + 1]

\* a set of two properties of different cardinalities, encoded to an index
\* whose second digit is not 0
C33_Witness ==
    /\ ret.op = "to_index"
    /\ BlocksOfTypes # {}
    /\ Len(ret.types) = 2
    /\ Len(ret.types[1].values) # Len(ret.types[2].values)
    /\ ret.index >= Len(ret.types[1].values)
    /\ ret.index = MixedRadix(ret.types, ret.a, 2)

----------------------------------------------------------------------------
(* Properties of the recomputed shape of a wire.                           *)

\* C34: recomputing the shape never changes the power of a wire: the result
\* of get_placement_state has the power of its input, and the result of
\* get_state_for_neighbor_update is the air state or a wire state with the
\* power of the input state.
C34_ShapeKeepsPower ==
    /\ ret.op = "get_placement_state" => ret.result.power = ret.old_props.power
    /\ ret.op = "get_state_for_neighbor_update" =>
          \/ ret.result = AIR_default_state_id
          \/ /\ ret.result \in OwnedRange(REDSTONE_WIRE_BLOCK)
             /\ wire_from_state_id(ret.result).power = wire_from_state_id(ret.state_id).power

\* a wire of power 15 whose shape a neighbour update changed
C34_Witness ==
    /\ ret.op = "get_state_for_neighbor_update"
    /\ ret.result # ret.state_id
    /\ wire_from_state_id(ret.state_id).power = 15
    /\ wire_from_state_id(ret.result).power = 15

IsWire(pos) == get_block_state(world, pos).block = REDSTONE_WIRE

\* the positions of the wires B that connect the wire at pos toward
\* direction: at the adjacent position, on top of the solid adjacent block
\* (the block above pos not solid), below the non-solid adjacent position
BecauseOf(pos, direction) ==
    LET other == offset(pos, to_offset(direction))
    IN {b \in {other, up(other), down(other)} :
          /\ IsWire(b)
          /\ b = up(other) =>
                /\ is_solid(get_block_state(world, other))
                /\ ~is_solid(get_block_state(world, up(pos)))
          /\ b = down(other) => ~is_solid(get_block_state(world, other))}

\* C35: when the connection of a wire A toward a horizontal direction d is
\* Side or Up because of a wire B (adjacent, on top of the solid adjacent
\* block, or below the non-solid adjacent position), the connection of B
\* toward the opposite direction is Side or Up.
C35_WireConnectionSymmetric ==
    (/\ ret.op = "get_render_connection_type"
     /\ IsWire(ret.pos)
     /\ ret.not_solid = ~is_solid(get_block_state(world, up(ret.pos)))
     /\ is_connected(ret.result)) =>
        \A b \in BecauseOf(ret.pos, ret.direction) :
            is_connected(Resolved(b, opposite(ret.direction)))

\* A goes up to a wire B on top of the solid block beside it
C35_Witness ==
    /\ ret.op = "get_render_connection_type"
    /\ ret.result = "up"
    /\ ret.not_solid = ~is_solid(get_block_state(world, up(ret.pos)))
    /\ up(offset(ret.pos, to_offset(ret.direction))) \in BecauseOf(ret.pos, ret.direction)
    /\ Resolved(up(offset(ret.pos, to_offset(ret.direction))), opposite(ret.direction))
          = "side"

\* the horizontal directions a wire state is connected toward
ConnectedSides(state) ==
    {d \in Range(horizontal) : is_connected(get_connection_type(state, d))}

\* the directions of the result that no neighbour connects: the end caps
Capped(pos, state) == {d \in ConnectedSides(state) : ~is_connected(Resolved(pos, d))}

\* C36: the result of get_placement_state never has exactly one connected
\* horizontal direction: it has none, only when the input had none and no
\* neighbour connects, or at least two; when it has exactly two with an end
\* cap among them they are opposite.
C36_NeverOneConnection ==
    ret.op = "get_placement_state" =>
        LET sides == ConnectedSides(ret.result)
        IN /\ Cardinality(sides) # 1
           /\ sides = {} =>
                 /\ is_not_connected(ret.old_props)
                 /\ \A d \in Range(horizontal) : ~is_connected(Resolved(ret.pos, d))
           /\ (Cardinality(sides) = 2 /\ Capped(ret.pos, ret.result) # {}) =>
                 \E d \in sides : sides = {d, opposite(d)}

\* a wire with one neighbour that connects: the end cap is across it
C36_Witness ==
    /\ ret.op = "get_placement_state"
    /\ Cardinality(ConnectedSides(ret.result)) = 2
    /\ Cardinality(Capped(ret.pos, ret.result)) = 1
    /\ ~is_not_connected(ret.old_props)

----------------------------------------------------------------------------
(* Properties of the doors.                                                *)

UseOps == {"use_with_item", "normal_use"}

\* C32: can_open_door is false exactly for the iron door with a game mode
\* other than Creative, true for the iron door in Creative and for every
\* other door in any game mode; when it is false use_with_item and
\* normal_use leave both halves of the door as they are and start no toggle.
C32_CanOpenDoor ==
    /\ [](ret.op \in UseOps =>
            /\ ret.can_open = ~(ret.block = IRON_DOOR.id /\ ret.gamemode # Creative)
            /\ ret.result = (IF ret.can_open THEN "toggles"
                             ELSE IF ret.op = "use_with_item" THEN "continue" ELSE "return"))
    /\ [][(ret' # ret /\ ret'.op \in UseOps) =>
            IF ret'.can_open
            THEN drv'[ret'.driver].pc = "toggle_door"
            ELSE world' = world /\ drv' = drv]_vars

\* a Survival player is refused at an iron door
C32_Witness ==
    /\ ret.op = "use_with_item"
    /\ ret.block = IRON_DOOR.id /\ ret.gamemode = Survival
    /\ ~ret.can_open /\ ret.result = "continue"
    /\ \A d \in DOMAIN drv : drv[d].pc = "idle"

\* the properties of the half at pos in the world w
PropsAt(w, pos) ==
    unwrap(from_state_id(DoorTypes, w[pos], get_block_and_block_state(w, pos).block))

\* two door properties differ in open at most
SameButOpen(p, q) == with_field(p, "open", "true") = with_field(q, "open", "true")

\* C37: after a toggle_door that ran alone on a half of a door both halves
\* have the same open value, the negation of the open value the toggled
\* half had; half, facing, hinge and powered of each half are unchanged; a
\* second toggle of the same half right after the first restores the state
\* the half had before the first.
C37_ToggleAlone ==
    ret.op = "toggle_door" =>
        LET own == PropsAt(world, ret.pos)
            other == PropsAt(world, ret.other_pos)
            own_before == PropsAt(ret.before, ret.pos)
            other_before == PropsAt(ret.before, ret.other_pos)
        IN /\ door_field(own, "open") # door_field(own_before, "open")
           /\ door_field(other, "open") = door_field(own, "open")
           /\ door_field(own, "open") \in {"true", "false"}
           /\ SameButOpen(own, own_before)
           /\ SameButOpen(other, other_before)
           /\ ret.other_pos # ret.pos /\ ret.other_pos \in DOMAIN world
           /\ (ret.prev # None /\ ret.prev[1].pos = ret.pos) =>
                 world[ret.pos] = ret.prev[1].before[ret.pos]

\* the upper half toggled twice in a row
C37_Witness ==
    /\ ret.op = "toggle_door"
    /\ ret.pos = UpperPos
    /\ ret.prev # None /\ ret.prev[1].pos = UpperPos
    /\ world[UpperPos] = ret.prev[1].before[UpperPos]
    /\ world[UpperPos] # ret.before[UpperPos]

\* C38: when toggle_door calls on the two halves of a door overlap, once
\* all of them have completed the two halves have the same open value.
C38_HalvesAgreeWhenDone ==
    (\A d \in DOMAIN drv : drv[d].pc = "idle") =>
        door_field(PropsAt(world, LowerPos), "open")
            = door_field(PropsAt(world, UpperPos), "open")

----------------------------------------------------------------------------
(* Properties of the stacks of an inventory.                               *)

\* C39: split_stack(stacks, slot, amount) removes min(amount, count) items
\* from stacks[slot] and returns them for every slot within bounds whose
\* stack is not empty when amount > 0; it returns the empty stack and
\* leaves the stacks as they are when the slot is out of bounds, the stack
\* is empty or amount is 0.
C39_SplitStack ==
    ret.op = "split_stack" =>
        IF /\ ret.slot < Len(ret.before)
           /\ ~is_empty(at(ret.before, ret.slot))
           /\ ret.amount > 0
        THEN LET old == at(ret.before, ret.slot)
                 n == Min(ret.amount, old.item_count)
             IN /\ ret.result = ItemStack(old.item, n)
                /\ stacks = put(ret.before, ret.slot, ItemStack(old.item, old.item_count - n))
        ELSE ret.result = EMPTY /\ stacks = ret.before

\* C40: insert_stack_count conserves the items and respects the capacity in
\* u8: the count of the slot afterwards plus the count returned is the
\* count of the slot before plus the count offered; the slot never holds
\* more than its maximum for the stack; nothing moves when the slot holds
\* another item or can_insert is false; the maximum minus the count of the
\* slot never underflows, also when the slot holds more than the maximum.
C40_InsertConserves ==
    (ret.op \in {"insert_stack_count", "insert_stack"} /\ ~is_empty(ret.stack)) =>
        LET old == at(ret.before, ret.index)
            new == at(stacks, ret.index)
        IN /\ ~ret.panic
           /\ ret.can_insert => ret.max >= old.item_count
           /\ new.item_count + ret.result.item_count = old.item_count + ret.stack.item_count
           /\ new.item_count # old.item_count => new.item_count <= ret.max
           /\ ((~is_empty(old) /\ old.item # ret.stack.item) \/ ~ret.can_insert) =>
                 stacks = ret.before /\ ret.result = ret.stack

====
